---- MODULE Spec2Model ----
(***************************************************************************)
(* Model of the thread-per-cell Game of Life engine of gamelife_core.py,   *)
(* its snapshot history (history_manager.py) and the controller handlers   *)
(* of gui_game.py that drive them.                                         *)
(*                                                                         *)
(* One cell_thread per interior cell and per pool; the workers meet at a   *)
(* threading.Barrier(parties, action=barrier_action).  The barrier is      *)
(* modelled with the behaviour of CPython's threading.Barrier: a count, a  *)
(* state (0 filling, 1 draining, -2 broken), the action run by the last    *)
(* arriver while it holds the barrier's condition lock.  The Tk main       *)
(* thread runs one handler at a time; worker steps interleave freely with  *)
(* it and with each other.  time.sleep() is a point where any number of    *)
(* steps of the other threads may happen.                                  *)
(***************************************************************************)
EXTENDS Integers, FiniteSets, Sequences, TLC

\* ---------------------------------------------------------------- bounds
\* Side of the grid (gamelife_core.n, 30 in the program) in Spec.
GridSide == 2
\* Side of the grid in SpecRound, where one round is followed on a grid with
\* an inner cell (a cell with eight interior neighbours).
RoundSide == 3
\* Number of pools start_workers may create in one run of the process.
MaxPools == 1
\* Number of pools in SpecSmall, where a game is opened again after the
\* return to the menu.
RestartPools == 2
\* Number of cell computations one worker may perform.
MaxRounds == 2
\* Number of injected faults (an exception in a cell computation or in the
\* snapshot write of the completion action).
MaxFaults == 1
\* Number of generations followed past MAX_HISTORY_GENERATIONS in
\* SpecHistory.
MaxEvict == 2
\* Side of the grid of the smaller game whose file is loaded in SpecFiles,
\* and of the games of SpecSmall.
SmallSide == 1

\* ------------------------------------------------------ program constants
MAX_HISTORY_GENERATIONS == 100

\* --------------------------------------------------------------- the grid
Min(S) == CHOOSE x \in S : \A y \in S : x <= y
Max(S) == CHOOSE x \in S : \A y \in S : x >= y

MaxSide == Max({GridSide, RoundSide, SmallSide})
Interior(size) == (1..size) \X (1..size)
Pools == 1..Max({MaxPools, RestartPools})
Workers == Pools \X Interior(MaxSide)

\* T = [] at module load: the empty list.
EmptyGrid == << >>

make_grid(size) == [c \in (0..(size + 1)) \X (0..(size + 1)) |-> 0]

\* The grid whose live interior cells are those of the set live.
Fill(g, size, live) ==
  [c \in DOMAIN g |-> IF c \in Interior(size)
                        THEN (IF c \in live THEN 1 ELSE 0)
                        ELSE g[c]]

\* The draws of random.random() followed here: every cell alive but the
\* last one, and the first row alone.
RandomDraws(size) ==
  {Interior(size) \ {<<size, size>>}, {c \in Interior(size) : c[1] = 1}}

\* The grids randomize_grid can leave in g: the interior refilled, the
\* border untouched.
randomize_grid(g, size) == {Fill(g, size, live) : live \in RandomDraws(size)}

clear_grid(g, size) == Fill(g, size, {})

\* The scan made over every index of the grid, border included.  A faulty
\* variant, kept to show that the statement of the scan tells it from
\* has_living_cells.
has_living_cells_whole(g, size) == \E c \in DOMAIN g : g[c] = 1

\* Lines 59-65: the scan of range(1, n + 1) in both directions.
has_living_cells(g, size) == \E c \in Interior(size) : g[c] = 1

\* Lines 157-161: the eight reads of T around (i, j).
neighbors(g, i, j) ==
    g[<<i - 1, j - 1>>] + g[<<i - 1, j>>] + g[<<i - 1, j + 1>>]
  + g[<<i, j - 1>>] + g[<<i, j + 1>>]
  + g[<<i + 1, j - 1>>] + g[<<i + 1, j>>] + g[<<i + 1, j + 1>>]

\* The rule without its upper limit: a live cell survives with two neighbours
\* or more.  A faulty variant, kept to show that the rule of one generation
\* tells it from conway.
conway_crowded(g, i, j) ==
  IF g[<<i, j>>] = 1
    THEN (IF neighbors(g, i, j) >= 2 THEN 1 ELSE 0)
    ELSE (IF neighbors(g, i, j) = 3 THEN 1 ELSE 0)

\* Lines 164-169: the value a worker writes to Tnext[i][j].
conway(g, i, j) ==
  IF g[<<i, j>>] = 1
    THEN (IF neighbors(g, i, j) \in {2, 3} THEN 1 ELSE 0)
    ELSE (IF neighbors(g, i, j) = 3 THEN 1 ELSE 0)

\* A barrier one party short.  A faulty variant, kept to show that the
\* lock-step property tells it from parties.
parties_short(size) == size * size - 1

\* A barrier of one party more than the pool has threads.  A faulty variant,
\* kept to show that the progress property tells it from parties.
parties_long(size) == size * size + 1

\* Line 202.
parties(size) == size * size

\* ------------------------------------------------------------ the history
\* The record that drops the largest key when the size exceeds the maximum.
\* A faulty variant, kept to show that the property of the eviction order
\* tells it from save_state_to_history.
save_state_to_history_newest(h, g, gen) ==
  IF g = EmptyGrid THEN h
  ELSE LET h1 == [k \in (DOMAIN h) \cup {gen} |-> IF k = gen THEN g ELSE h[k]]
       IN IF Cardinality(DOMAIN h1) > MAX_HISTORY_GENERATIONS
            THEN [k \in (DOMAIN h1) \ {Max(DOMAIN h1)} |-> h1[k]]
            ELSE h1

\* save_state_to_history: a copy of T under key gen_counter, then the
\* smallest key goes when the size exceeds the maximum.
save_state_to_history(h, g, gen) ==
  IF g = EmptyGrid THEN h
  ELSE LET h1 == [k \in (DOMAIN h) \cup {gen} |-> IF k = gen THEN g ELSE h[k]]
       IN IF Cardinality(DOMAIN h1) > MAX_HISTORY_GENERATIONS
            THEN [k \in (DOMAIN h1) \ {Min(DOMAIN h1)} |-> h1[k]]
            ELSE h1

EmptyHistory == [k \in {} |-> EmptyGrid]

\* can_undo with the comparison made inclusive.  A faulty variant, kept to
\* show that the agreement of the predicates with the navigation tells it
\* from can_undo.
can_undo_inclusive(h, gen) == DOMAIN h # {} /\ gen >= Min(DOMAIN h)

\* can_undo, lines 104-120.
can_undo(h, gen) == DOMAIN h # {} /\ gen > Min(DOMAIN h)

\* can_redo, lines 130-138.
can_redo(h, gen) == DOMAIN h # {} /\ gen < Max(DOMAIN h)

\* The directions load_state_from_history is called with: the two it knows,
\* and one standing for every other string.
Directions == {"undo", "redo", "sideways"}

\* The navigation that takes the oldest of the earlier generations.  A faulty
\* variant, kept to show that the property of the navigation target tells it
\* from load_state_from_history.
load_state_from_history_oldest(h, g, gen, rd, direction) ==
  LET previous_gens == {k \in DOMAIN h : k < gen}
      next_gens == {k \in DOMAIN h : k > gen}
      found == IF direction = "undo" THEN previous_gens # {}
               ELSE IF direction = "redo" THEN next_gens # {}
               ELSE FALSE
      target_gen == IF direction = "undo" THEN Min(previous_gens)
                    ELSE Min(next_gens)
  IN IF DOMAIN h = {} \/ ~found
       THEN [ok |-> FALSE, raised |-> FALSE,
             T |-> g, gen_counter |-> gen, redraw_event |-> rd]
       ELSE IF ~(DOMAIN h[target_gen] \subseteq DOMAIN g)
         THEN [ok |-> FALSE, raised |-> TRUE,
               T |-> [c \in DOMAIN g |->
                        IF c[1] = 0 THEN h[target_gen][c] ELSE g[c]],
               gen_counter |-> gen, redraw_event |-> rd]
         ELSE [ok |-> TRUE, raised |-> FALSE,
               T |-> [c \in DOMAIN g |->
                        IF c \in DOMAIN h[target_gen] THEN h[target_gen][c]
                                                      ELSE g[c]],
               gen_counter |-> target_gen,
               redraw_event |-> TRUE]

\* The navigation whose redo takes the latest of the later generations.  A
\* faulty variant, kept to show that the round trip of undo and redo tells it
\* from load_state_from_history.
load_state_from_history_latest(h, g, gen, rd, direction) ==
  LET previous_gens == {k \in DOMAIN h : k < gen}
      next_gens == {k \in DOMAIN h : k > gen}
      found == IF direction = "undo" THEN previous_gens # {}
               ELSE IF direction = "redo" THEN next_gens # {}
               ELSE FALSE
      target_gen == IF direction = "undo" THEN Max(previous_gens)
                    ELSE Max(next_gens)
  IN IF DOMAIN h = {} \/ ~found
       THEN [ok |-> FALSE, raised |-> FALSE,
             T |-> g, gen_counter |-> gen, redraw_event |-> rd]
       ELSE IF ~(DOMAIN h[target_gen] \subseteq DOMAIN g)
         THEN [ok |-> FALSE, raised |-> TRUE,
               T |-> [c \in DOMAIN g |->
                        IF c[1] = 0 THEN h[target_gen][c] ELSE g[c]],
               gen_counter |-> gen, redraw_event |-> rd]
         ELSE [ok |-> TRUE, raised |-> FALSE,
               T |-> [c \in DOMAIN g |->
                        IF c \in DOMAIN h[target_gen] THEN h[target_gen][c]
                                                      ELSE g[c]],
               gen_counter |-> target_gen,
               redraw_event |-> TRUE]

\* load_state_from_history, lines 43-102, on the history h, the grid g that T
\* names, the counter gen and the flag rd of redraw_event: what it returns
\* (ok), whether it raises, and what it leaves in T, gen_counter and
\* redraw_event.  Lines 89-93 write T[i][j] for every index of the stored
\* grid, row after row, without a test: a stored grid no larger than T is
\* copied whole; with a larger one the cells of row 0 that T has are written
\* and T[0][j] raises IndexError at the first j past the row, before the
\* counter and the flag are touched.
load_state_from_history(h, g, gen, rd, direction) ==
  LET previous_gens == {k \in DOMAIN h : k < gen}
      next_gens == {k \in DOMAIN h : k > gen}
      found == IF direction = "undo" THEN previous_gens # {}
               ELSE IF direction = "redo" THEN next_gens # {}
               ELSE FALSE
      target_gen == IF direction = "undo" THEN Max(previous_gens)
                    ELSE Min(next_gens)
  IN IF DOMAIN h = {} \/ ~found
       THEN [ok |-> FALSE, raised |-> FALSE,
             T |-> g, gen_counter |-> gen, redraw_event |-> rd]
       ELSE IF ~(DOMAIN h[target_gen] \subseteq DOMAIN g)
         THEN [ok |-> FALSE, raised |-> TRUE,
               T |-> [c \in DOMAIN g |->
                        IF c[1] = 0 THEN h[target_gen][c] ELSE g[c]],
               gen_counter |-> gen, redraw_event |-> rd]
         ELSE [ok |-> TRUE, raised |-> FALSE,
               T |-> [c \in DOMAIN g |->
                        IF c \in DOMAIN h[target_gen] THEN h[target_gen][c]
                                                      ELSE g[c]],
               gen_counter |-> target_gen,
               redraw_event |-> TRUE]

\* The keys of the history file are str(gen); they are read back with int().
MaxKey == Max({MaxPools * MaxRounds, MAX_HISTORY_GENERATIONS + MaxEvict})
str(gen) == ToString(gen)
int(s) == CHOOSE k \in 0..MaxKey : ToString(k) = s

\* The file written without the counter.  A faulty variant, kept to show that
\* the property of the round trip tells it from save_history_to_file.
save_history_to_file_nogen(h, gen, g) ==
  [history |-> [s \in {str(k) : k \in DOMAIN h} |-> h[int(s)]],
   current_gen |-> 0,
   grid_state |-> g]

\* save_history_to_file, lines 159-169: what json.dump writes.
save_history_to_file(h, gen, g) ==
  [history |-> [s \in {str(k) : k \in DOMAIN h} |-> h[int(s)]],
   current_gen |-> gen,
   grid_state |-> g]

\* load_history_from_file, lines 194-196: the history read back.
loaded_history(f) ==
  [k \in {int(s) : s \in DOMAIN f.history} |-> f.history[str(k)]]

\* load_history_from_file, lines 205-214: the saved cells are copied to the
\* positions that exist in T.
loaded_grid(f, g) ==
  IF f.grid_state = EmptyGrid \/ g = EmptyGrid THEN g
  ELSE [c \in DOMAIN g |->
          IF c \in DOMAIN f.grid_state THEN f.grid_state[c] ELSE g[c]]

\* ------------------------------------------------------------------ state
VARIABLES
  n,                  \* gamelife_core.n
  heap,               \* the two grid objects, by identity 0 and 1
  T,                  \* which object the global T names
  Tnext,              \* which object the global Tnext names
  gen_counter,
  generation_history, \* generation -> grid
  threads,            \* the pool whose threads the list holds, 0 when empty
  barrier,            \* the barrier object the global names, 0 for None
  bar,                \* the barrier objects: count and state, and how many
                      \* times the action was invoked and a cycle released
  stop_event, running, step_event, redraw_event,
  speed,              \* _speed
  swap_lock,          \* the worker holding swap_lock, or None
  pc,                 \* where each cell_thread is
  at,                 \* the barrier object in whose wait() a worker is
  round,              \* how many cell computations a worker has made
  faults,             \* how many faults have been injected
  dirty,              \* the controller wrote the grid while a round was
                      \* under way
  since_step,         \* increments of gen_counter since one_step set
                      \* step_event; -1 when no request is being followed
  survivors,          \* threads of an earlier pool were alive when
                      \* start_workers created a pool
  observed,           \* the workers that left the run gate of line 148 on
                      \* reading stop_event as set and have neither ended
                      \* nor reached line 157 since
  fresh,              \* the last thing the main thread did to the game was
                      \* a reset (clear, randomize, the current grid taken
                      \* as generation 0)
  since_pause,        \* increments of gen_counter since toggle_start
                      \* cleared running, 2 for two or more; -1 once
                      \* running has been set again
  painted,            \* the grid redraw read when the repaint is followed
                      \* as a step of its own (lines 1345 and 1347 apart);
                      \* EmptyGrid before
  history_file,       \* gamelife_history.json: NoFile, or <<what was written>>
  ui                  \* where the Tk main thread is

vars == <<n, heap, T, Tnext, gen_counter, generation_history, threads,
          barrier, bar, stop_event, running, step_event, redraw_event,
          speed, swap_lock, pc, at, round, faults, dirty, since_step,
          survivors, observed, fresh, since_pause, painted, history_file, ui>>

None == <<"None">>

\* os.path.exists(HISTORY_FILE) is false.
NoFile == << >>

\* Barrier._state: 0 filling, 1 draining, -2 broken.
Filling == "filling"
Draining == "draining"
Broken == "broken"

NewBarrier == [count |-> 0, state |-> Filling, invoked |-> 0, released |-> 0]

cell(w) == w[2]
pool(w) == w[1]

\* pcs of the completion action: the worker holds the barrier's lock.
ActionPcs == {"swap", "incr", "save", "redraw", "stepchk", "stepclr",
              "pace", "sleep", "release"}
\* The thread has ended: by stop_event, by an exception of its computation,
\* by an exception of the action it ran, by BrokenBarrierError.
DonePcs == {"done_stop", "done_fault", "done_action", "done_broken"}

\* The condition lock of barrier b is held: its action is running.
locked(b) == \E v \in Workers : at[v] = b /\ pc[v] \in ActionPcs

\* Some worker has written its cell of Tnext for a swap that is still to
\* come.
inRound ==
  \E v \in Workers :
    \/ pc[v] \in {"enter", "swap"}
    \/ /\ pc[v] = "waiting"
       /\ bar[at[v]].state = Filling
       /\ ~\E u \in Workers : at[u] = at[v] /\ pc[u] \in ActionPcs \ {"swap"}

\* Pool p has been created and stop_workers has returned since: the list
\* threads no longer holds it.
stopped(p) == p <= barrier /\ threads # p

Init ==
  /\ n = GridSide
  /\ heap = [b \in {0, 1} |-> EmptyGrid]
  /\ T = 0
  /\ Tnext = 1
  /\ gen_counter = 0
  /\ generation_history = EmptyHistory
  /\ threads = 0
  /\ barrier = 0
  /\ bar = [b \in Pools |-> NewBarrier]
  /\ stop_event = FALSE
  /\ running = FALSE
  /\ step_event = FALSE
  /\ redraw_event = FALSE
  /\ speed = 5
  /\ swap_lock = None
  /\ pc = [w \in Workers |-> "unborn"]
  /\ at = [w \in Workers |-> 0]
  /\ round = [w \in Workers |-> 0]
  /\ faults = 0
  /\ dirty = FALSE
  /\ since_step = 0 - 1
  /\ survivors = FALSE
  /\ observed = {}
  /\ fresh = FALSE
  /\ since_pause = 0 - 1
  /\ painted = EmptyGrid
  /\ history_file = NoFile
  /\ ui = "menu"

\* ------------------------------------------------------------ cell_thread
\* Line 146, when the thread starts: while not stop_event.is_set()
Loop(w) ==
  /\ pc[w] = "loop"
  /\ pc' = [pc EXCEPT ![w] = IF stop_event THEN "done_stop" ELSE "gate"]
  /\ UNCHANGED <<n, heap, T, Tnext, gen_counter, generation_history, threads,
                 barrier, bar, stop_event, running, step_event, redraw_event,
                 speed, swap_lock, at, round, faults, dirty, since_step,
                 survivors, observed, fresh, since_pause, painted,
                 history_file, ui>>

\* Lines 148-150: the run gate; the worker sleeps 10 ms and looks again
\* until running or stop_event is set.  stop_event is read only when running
\* is clear, so a worker that leaves the gate with running clear has read
\* stop_event as set.
Gate(w) ==
  /\ pc[w] = "gate"
  /\ running \/ stop_event
  /\ pc' = [pc EXCEPT ![w] = "check"]
  /\ observed' = IF running THEN observed ELSE observed \cup {w}
  /\ UNCHANGED <<n, heap, T, Tnext, gen_counter, generation_history, threads,
                 barrier, bar, stop_event, running, step_event, redraw_event,
                 speed, swap_lock, at, round, faults, dirty, since_step,
                 survivors, fresh, since_pause, painted, history_file, ui>>

\* Lines 153-154: if stop_event.is_set(): break
Check(w) ==
  /\ pc[w] = "check"
  /\ pc' = [pc EXCEPT ![w] = IF stop_event THEN "done_stop" ELSE "compute"]
  /\ observed' = IF stop_event THEN observed \ {w} ELSE observed
  /\ UNCHANGED <<n, heap, T, Tnext, gen_counter, generation_history, threads,
                 barrier, bar, stop_event, running, step_event, redraw_event,
                 speed, swap_lock, at, round, faults, dirty, since_step,
                 survivors, fresh, since_pause, painted, history_file, ui>>

\* wait() with the action given to the first thread to arrive (index = 0)
\* instead of the last.  A faulty variant, kept to show that the property of
\* the completion action tells it from BarrierEnter.
BarrierEnter_first(w, b) ==
  IF bar[b].state = Broken
    THEN /\ pc' = [pc EXCEPT ![w] = "done_broken"]
         /\ at' = [at EXCEPT ![w] = 0]
         /\ bar' = bar
    ELSE IF bar[b].count = 0
      THEN /\ pc' = [pc EXCEPT ![w] = "swap"]
           /\ at' = [at EXCEPT ![w] = b]
           /\ bar' = [bar EXCEPT ![b].count = @ + 1, ![b].invoked = @ + 1]
      ELSE /\ pc' = [pc EXCEPT ![w] = "waiting"]
           /\ at' = [at EXCEPT ![w] = b]
           /\ bar' = [bar EXCEPT ![b].count = @ + 1]

\* Barrier.wait() once the thread is inside barrier b: index = count,
\* count += 1, and the thread whose index + 1 equals parties runs the
\* action; a broken barrier raises BrokenBarrierError, which line 175 catches.
BarrierEnter(w, b) ==
  IF bar[b].state = Broken
    THEN /\ pc' = [pc EXCEPT ![w] = "done_broken"]
         /\ at' = [at EXCEPT ![w] = 0]
         /\ bar' = bar
    ELSE IF bar[b].count + 1 = parties(n)
      THEN /\ pc' = [pc EXCEPT ![w] = "swap"]
           /\ at' = [at EXCEPT ![w] = b]
           /\ bar' = [bar EXCEPT ![b].count = @ + 1, ![b].invoked = @ + 1]
      ELSE /\ pc' = [pc EXCEPT ![w] = "waiting"]
           /\ at' = [at EXCEPT ![w] = b]
           /\ bar' = [bar EXCEPT ![b].count = @ + 1]

\* The computation made in place: the cell is written in the grid it was
\* read from.  A faulty variant, kept to show that the property of the two
\* buffers tells it from Compute.
Compute_inplace(w) ==
  /\ pc[w] = "compute"
  /\ round[w] < MaxRounds
  /\ heap' = [heap EXCEPT ![T][cell(w)] =
                conway(heap[T], cell(w)[1], cell(w)[2])]
  /\ round' = [round EXCEPT ![w] = @ + 1]
  /\ observed' = observed \ {w}
  /\ IF locked(barrier) \/ bar[barrier].state = Draining
       THEN /\ pc' = [pc EXCEPT ![w] = "enter"]
            /\ at' = [at EXCEPT ![w] = barrier]
            /\ bar' = bar
       ELSE BarrierEnter(w, barrier)
  /\ UNCHANGED <<n, T, Tnext, gen_counter, generation_history, threads,
                 barrier, stop_event, running, step_event, redraw_event, speed,
                 swap_lock, faults, dirty, since_step, survivors, fresh,
                 since_pause, painted, history_file, ui>>

\* The computation that writes births and survivals only and leaves a dead
\* cell of Tnext as the round of two generations before left it.  A faulty
\* variant, kept to show that the second round of the two buffers tells it
\* from Compute.
Compute_stale(w) ==
  /\ pc[w] = "compute"
  /\ round[w] < MaxRounds
  /\ heap' = IF conway(heap[T], cell(w)[1], cell(w)[2]) = 1
               THEN [heap EXCEPT ![Tnext][cell(w)] = 1]
               ELSE heap
  /\ round' = [round EXCEPT ![w] = @ + 1]
  /\ observed' = observed \ {w}
  /\ IF locked(barrier) \/ bar[barrier].state = Draining
       THEN /\ pc' = [pc EXCEPT ![w] = "enter"]
            /\ at' = [at EXCEPT ![w] = barrier]
            /\ bar' = bar
       ELSE BarrierEnter(w, barrier)
  /\ UNCHANGED <<n, T, Tnext, gen_counter, generation_history, threads,
                 barrier, stop_event, running, step_event, redraw_event, speed,
                 swap_lock, faults, dirty, since_step, survivors, fresh,
                 since_pause, painted, history_file, ui>>

\* The computation when a snapshot is the list it was taken from and not a
\* copy of it: the buffer written, Tnext, is the one the snapshot of the
\* generation before was taken from, and the write shows in it.  A faulty
\* variant, kept to show that the frame of the snapshots tells it from
\* Compute.
Compute_shared(w) ==
  /\ pc[w] = "compute"
  /\ round[w] < MaxRounds
  /\ heap' = [heap EXCEPT ![Tnext][cell(w)] =
                conway(heap[T], cell(w)[1], cell(w)[2])]
  /\ generation_history' =
       IF gen_counter - 1 \in DOMAIN generation_history
         THEN [generation_history EXCEPT ![gen_counter - 1][cell(w)] =
                 conway(heap[T], cell(w)[1], cell(w)[2])]
         ELSE generation_history
  /\ round' = [round EXCEPT ![w] = @ + 1]
  /\ observed' = observed \ {w}
  /\ IF locked(barrier) \/ bar[barrier].state = Draining
       THEN /\ pc' = [pc EXCEPT ![w] = "enter"]
            /\ at' = [at EXCEPT ![w] = barrier]
            /\ bar' = bar
       ELSE BarrierEnter(w, barrier)
  /\ UNCHANGED <<n, T, Tnext, gen_counter, threads, barrier, stop_event,
                 running, step_event, redraw_event, speed, swap_lock, faults,
                 dirty, since_step, survivors, fresh, since_pause, painted,
                 history_file, ui>>

\* Lines 157-173: the neighbours are read in T, the cell is written in
\* Tnext, and barrier.wait() is called on the object the global names.  The
\* call takes the barrier's lock; while the barrier drains or its action runs
\* the caller waits inside it (Barrier._enter).  Nothing another thread reads
\* is written between the assignment of line 166/169 and the call, so they are
\* one step.
Compute(w) ==
  /\ pc[w] = "compute"
  /\ round[w] < MaxRounds
  /\ heap' = [heap EXCEPT ![Tnext][cell(w)] =
                conway(heap[T], cell(w)[1], cell(w)[2])]
  /\ round' = [round EXCEPT ![w] = @ + 1]
  /\ observed' = observed \ {w}
  /\ IF locked(barrier) \/ bar[barrier].state = Draining
       THEN /\ pc' = [pc EXCEPT ![w] = "enter"]
            /\ at' = [at EXCEPT ![w] = barrier]
            /\ bar' = bar
       ELSE BarrierEnter(w, barrier)
  /\ UNCHANGED <<n, T, Tnext, gen_counter, generation_history, threads,
                 barrier, stop_event, running, step_event, redraw_event, speed,
                 swap_lock, faults, dirty, since_step, survivors, fresh,
                 since_pause, painted, history_file, ui>>

\* Lines 175-177: an exception raised by the computation is caught, printed,
\* and the thread ends.
Fault(w) ==
  /\ pc[w] = "compute"
  /\ faults < MaxFaults
  /\ faults' = faults + 1
  /\ pc' = [pc EXCEPT ![w] = "done_fault"]
  /\ observed' = observed \ {w}
  /\ UNCHANGED <<n, heap, T, Tnext, gen_counter, generation_history, threads,
                 barrier, bar, stop_event, running, step_event, redraw_event,
                 speed, swap_lock, at, round, dirty, since_step, survivors,
                 fresh, since_pause, painted, history_file, ui>>

\* Barrier._enter returns once the previous cycle has drained.
Enter(w) ==
  /\ pc[w] = "enter"
  /\ ~locked(at[w])
  /\ bar[at[w]].state # Draining
  /\ BarrierEnter(w, at[w])
  /\ UNCHANGED <<n, heap, T, Tnext, gen_counter, generation_history, threads,
                 barrier, stop_event, running, step_event, redraw_event, speed,
                 swap_lock, round, faults, dirty, since_step, survivors,
                 observed, fresh, since_pause, painted, history_file, ui>>

\* A waiter leaves wait(): count -= 1 and the last one out ends the draining
\* (Barrier._exit); on a broken barrier it raises BrokenBarrierError.  Back in
\* cell_thread the test of line 146 follows at once.
Leave(w) ==
  /\ pc[w] = "waiting"
  /\ ~locked(at[w])
  /\ bar[at[w]].state # Filling
  /\ bar' = [bar EXCEPT ![at[w]].count = @ - 1,
                        ![at[w]].state =
                          IF @ = Draining /\ bar[at[w]].count = 1
                            THEN Filling ELSE @]
  /\ at' = [at EXCEPT ![w] = 0]
  /\ pc' = [pc EXCEPT ![w] =
              IF bar[at[w]].state = Broken THEN "done_broken"
              ELSE IF stop_event THEN "done_stop" ELSE "gate"]
  /\ UNCHANGED <<n, heap, T, Tnext, gen_counter, generation_history, threads,
                 barrier, stop_event, running, step_event, redraw_event, speed,
                 swap_lock, round, faults, dirty, since_step, survivors,
                 observed, fresh, since_pause, painted, history_file, ui>>

\* --------------------------------------------------------- barrier_action
\* Run by the worker that arrived last, inside Barrier._release, before any
\* waiter is woken.

\* Lines 102-104: with swap_lock: T, Tnext = Tnext, T
\* The exchange written as two assignments, T = Tnext then Tnext = T: both
\* names end on one buffer.  A faulty variant, kept to show that the exchange
\* property tells it from Swap.
Swap_aliased(w) ==
  /\ pc[w] = "swap"
  /\ swap_lock = None
  /\ swap_lock' = w
  /\ T' = Tnext
  /\ Tnext' = Tnext
  /\ pc' = [pc EXCEPT ![w] = "incr"]
  /\ UNCHANGED <<n, heap, gen_counter, generation_history, threads, barrier,
                 bar, stop_event, running, step_event, redraw_event, speed, at,
                 round, faults, dirty, since_step, survivors, observed, fresh,
                 since_pause, painted, history_file, ui>>

\* The exchange that requests the redraw at once, before the counter is
\* incremented and the snapshot recorded.  A faulty variant, kept to show
\* that the property of the redraw request tells it from Swap.
Swap_redraw(w) ==
  /\ pc[w] = "swap"
  /\ swap_lock = None
  /\ swap_lock' = w
  /\ T' = Tnext
  /\ Tnext' = T
  /\ redraw_event' = TRUE
  /\ pc' = [pc EXCEPT ![w] = "incr"]
  /\ UNCHANGED <<n, heap, gen_counter, generation_history, threads, barrier,
                 bar, stop_event, running, step_event, speed, at, round,
                 faults, dirty, since_step, survivors, observed, fresh,
                 since_pause, painted, history_file, ui>>

Swap(w) ==
  /\ pc[w] = "swap"
  /\ swap_lock = None
  /\ swap_lock' = w
  /\ T' = Tnext
  /\ Tnext' = T
  /\ pc' = [pc EXCEPT ![w] = "incr"]
  /\ UNCHANGED <<n, heap, gen_counter, generation_history, threads, barrier,
                 bar, stop_event, running, step_event, redraw_event, speed, at,
                 round, faults, dirty, since_step, survivors, observed, fresh,
                 since_pause, painted, history_file, ui>>

\* The increment made twice.  A faulty variant, kept to show that the
\* property of the counter tells it from Incr.
Incr_twice(w) ==
  /\ pc[w] = "incr"
  /\ gen_counter' = gen_counter + 2
  /\ swap_lock' = None
  /\ since_step' = IF since_step >= 0 THEN since_step + 1 ELSE since_step
  /\ since_pause' = IF since_pause \in {0, 1} THEN since_pause + 1
                                              ELSE since_pause
  /\ pc' = [pc EXCEPT ![w] = "save"]
  /\ UNCHANGED <<n, heap, T, Tnext, generation_history, threads, barrier, bar,
                 stop_event, running, step_event, redraw_event, speed, at,
                 round, faults, dirty, survivors, observed, fresh, painted,
                 history_file, ui>>

\* Line 106: gen_counter += 1, and swap_lock is released.
Incr(w) ==
  /\ pc[w] = "incr"
  /\ gen_counter' = gen_counter + 1
  /\ swap_lock' = None
  /\ since_step' = IF since_step >= 0 THEN since_step + 1 ELSE since_step
  /\ since_pause' = IF since_pause \in {0, 1} THEN since_pause + 1
                                              ELSE since_pause
  /\ pc' = [pc EXCEPT ![w] = "save"]
  /\ UNCHANGED <<n, heap, T, Tnext, generation_history, threads, barrier, bar,
                 stop_event, running, step_event, redraw_event, speed, at,
                 round, faults, dirty, survivors, observed, fresh, painted,
                 history_file, ui>>

\* The snapshot taken of the buffer the swap has just retired.  A faulty
\* variant, kept to show that the property of the recorded snapshot tells it
\* from Save.
Save_retired(w) ==
  /\ pc[w] = "save"
  /\ generation_history' =
       save_state_to_history(generation_history, heap[Tnext], gen_counter)
  /\ pc' = [pc EXCEPT ![w] = "redraw"]
  /\ UNCHANGED <<n, heap, T, Tnext, gen_counter, threads, barrier, bar,
                 stop_event, running, step_event, redraw_event, speed,
                 swap_lock, at, round, faults, dirty, since_step, survivors,
                 observed, fresh, since_pause, painted, history_file, ui>>

\* Line 112: save_state_to_history()
Save(w) ==
  /\ pc[w] = "save"
  /\ generation_history' =
       save_state_to_history(generation_history, heap[T], gen_counter)
  /\ pc' = [pc EXCEPT ![w] = "redraw"]
  /\ UNCHANGED <<n, heap, T, Tnext, gen_counter, threads, barrier, bar,
                 stop_event, running, step_event, redraw_event, speed,
                 swap_lock, at, round, faults, dirty, since_step, survivors,
                 observed, fresh, since_pause, painted, history_file, ui>>

\* Line 112 raises: Barrier._release breaks the barrier (state -2) and
\* re-raises; wait() takes the thread out of the count and line 175 catches
\* the exception, so the thread ends.
SaveFault(w) ==
  /\ pc[w] = "save"
  /\ faults < MaxFaults
  /\ faults' = faults + 1
  /\ bar' = [bar EXCEPT ![at[w]].state = Broken, ![at[w]].count = @ - 1]
  /\ at' = [at EXCEPT ![w] = 0]
  /\ pc' = [pc EXCEPT ![w] = "done_action"]
  /\ UNCHANGED <<n, heap, T, Tnext, gen_counter, generation_history, threads,
                 barrier, stop_event, running, step_event, redraw_event, speed,
                 swap_lock, round, dirty, since_step, survivors, observed,
                 fresh, since_pause, painted, history_file, ui>>

\* Line 115: redraw_event.set()
Redraw(w) ==
  /\ pc[w] = "redraw"
  /\ redraw_event' = TRUE
  /\ pc' = [pc EXCEPT ![w] = "stepchk"]
  /\ UNCHANGED <<n, heap, T, Tnext, gen_counter, generation_history, threads,
                 barrier, bar, stop_event, running, step_event, speed,
                 swap_lock, at, round, faults, dirty, since_step, survivors,
                 observed, fresh, since_pause, painted, history_file, ui>>

\* Lines 118-120: if step_event.is_set(): running.clear()
StepChk(w) ==
  /\ pc[w] = "stepchk"
  /\ running' = IF step_event THEN FALSE ELSE running
  /\ pc' = [pc EXCEPT ![w] = IF step_event THEN "stepclr" ELSE "pace"]
  /\ UNCHANGED <<n, heap, T, Tnext, gen_counter, generation_history, threads,
                 barrier, bar, stop_event, step_event, redraw_event, speed,
                 swap_lock, at, round, faults, dirty, since_step, survivors,
                 observed, fresh, since_pause, painted, history_file, ui>>

\* Line 122: step_event.clear()
StepClr(w) ==
  /\ pc[w] = "stepclr"
  /\ step_event' = FALSE
  /\ since_step' = 0 - 1
  /\ pc' = [pc EXCEPT ![w] = "pace"]
  /\ UNCHANGED <<n, heap, T, Tnext, gen_counter, generation_history, threads,
                 barrier, bar, stop_event, running, redraw_event, speed,
                 swap_lock, at, round, faults, dirty, survivors, observed,
                 fresh, since_pause, painted, history_file, ui>>

\* Lines 125-133: local_speed = _speed; a positive speed sleeps 1/speed.
Pace(w) ==
  /\ pc[w] = "pace"
  /\ pc' = [pc EXCEPT ![w] = IF speed > 0 THEN "sleep" ELSE "release"]
  /\ UNCHANGED <<n, heap, T, Tnext, gen_counter, generation_history, threads,
                 barrier, bar, stop_event, running, step_event, redraw_event,
                 speed, swap_lock, at, round, faults, dirty, since_step,
                 survivors, observed, fresh, since_pause, painted,
                 history_file, ui>>

\* Line 133: time.sleep returns.
Sleep(w) ==
  /\ pc[w] = "sleep"
  /\ pc' = [pc EXCEPT ![w] = "release"]
  /\ UNCHANGED <<n, heap, T, Tnext, gen_counter, generation_history, threads,
                 barrier, bar, stop_event, running, step_event, redraw_event,
                 speed, swap_lock, at, round, faults, dirty, since_step,
                 survivors, observed, fresh, since_pause, painted,
                 history_file, ui>>

\* The action has returned: Barrier._release sets the state to draining and
\* wakes the waiters, and wait() takes the caller out of the count.  Back in
\* cell_thread the test of line 146 follows at once.
Release(w) ==
  /\ pc[w] = "release"
  /\ bar' = [bar EXCEPT ![at[w]].count = @ - 1,
                        ![at[w]].state =
                          IF bar[at[w]].count = 1 THEN Filling ELSE Draining,
                        ![at[w]].released = @ + 1]
  /\ at' = [at EXCEPT ![w] = 0]
  /\ dirty' = FALSE
  /\ pc' = [pc EXCEPT ![w] = IF stop_event THEN "done_stop" ELSE "gate"]
  /\ UNCHANGED <<n, heap, T, Tnext, gen_counter, generation_history, threads,
                 barrier, stop_event, running, step_event, redraw_event, speed,
                 swap_lock, round, faults, since_step, survivors, observed,
                 fresh, since_pause, painted, history_file, ui>>

\* ------------------------------------------------------------- gui_game
\* The handlers of ModernApp, run by the Tk main thread.  ui is "menu" when
\* no game window exists, "idle" when the event loop waits for an event,
\* "dragging" between a press that toggled a cell and its release (is_dragging),
\* "dlg_..." while show_custom_message waits for the answer (the event loop
\* keeps running the timers), "stopping" inside the sleep of stop_workers.

\* The cells the mouse is pressed on.
EditCells(size) == {<<1, 1>>}

\* The controller writes T: a round under way is no longer a round of one
\* grid.
Touched == dirty \/ inRound

\* ModernApp.__init__, lines 141-173: load_config, start_workers (its call of
\* stop_workers finds threads empty), load_history_from_file, a random grid
\* when the history is empty, and running as it was saved.  limit is the
\* number of pools the process may create.
NewGame(limit) ==
  /\ ui = "menu"
  /\ barrier < limit
  /\ threads = 0
  /\ \E was_running \in BOOLEAN, g0 \in randomize_grid(make_grid(n), n) :
       LET h1 == IF history_file = NoFile THEN generation_history
                 ELSE loaded_history(history_file[1])
           g1 == IF history_file = NoFile THEN make_grid(n)
                 ELSE loaded_grid(history_file[1], make_grid(n))
           c1 == IF history_file = NoFile THEN 0
                 ELSE history_file[1].current_gen
           g2 == IF DOMAIN h1 = {} THEN g0 ELSE g1
       IN /\ heap' = [b \in {0, 1} |-> IF b = 0 THEN g2 ELSE make_grid(n)]
          /\ generation_history' =
               IF DOMAIN h1 = {} THEN save_state_to_history(h1, g2, c1) ELSE h1
          /\ gen_counter' = c1
          /\ running' = was_running
  /\ T' = 0
  /\ Tnext' = 1
  /\ barrier' = barrier + 1
  /\ threads' = barrier + 1
  /\ stop_event' = FALSE
  /\ redraw_event' = TRUE
  /\ pc' = [w \in Workers |->
              IF pool(w) = barrier + 1 /\ cell(w) \in Interior(n)
                THEN "loop" ELSE pc[w]]
  /\ dirty' = Touched
  /\ since_step' = 0 - 1
  /\ fresh' = FALSE
  /\ since_pause' = 0 - 1
  /\ survivors' = (survivors \/ \E v \in Workers :
                                  pc[v] \notin DonePcs \cup {"unborn"})
  /\ ui' = "idle"
  /\ UNCHANGED <<n, bar, step_event, speed, swap_lock, at, round, faults,
                 observed, painted, history_file>>

OpenGame == NewGame(MaxPools)

\* toggle_start, lines 788-815.
ToggleStart ==
  /\ ui = "idle"
  /\ IF running
       THEN /\ running' = FALSE
            /\ UNCHANGED generation_history
       ELSE /\ has_living_cells(heap[T], n)
            /\ generation_history' =
                 save_state_to_history(generation_history, heap[T], gen_counter)
            /\ running' = TRUE
  /\ since_step' = 0 - 1
  /\ fresh' = FALSE
  /\ since_pause' = IF running THEN 0 ELSE 0 - 1
  /\ UNCHANGED <<n, heap, T, Tnext, gen_counter, threads, barrier, bar,
                 stop_event, step_event, redraw_event, speed, swap_lock, pc,
                 at, round, faults, dirty, survivors, observed, painted,
                 history_file, ui>>

\* one_step, lines 823-843.
OneStep ==
  /\ ui = "idle"
  /\ ~(running \/ step_event)
  /\ has_living_cells(heap[T], n)
  /\ generation_history' =
       save_state_to_history(generation_history, heap[T], gen_counter)
  /\ step_event' = TRUE
  /\ running' = TRUE
  /\ since_step' = 0
  /\ fresh' = FALSE
  /\ since_pause' = 0 - 1
  /\ UNCHANGED <<n, heap, T, Tnext, gen_counter, threads, barrier, bar,
                 stop_event, redraw_event, speed, swap_lock, pc, at, round,
                 faults, dirty, survivors, observed, painted, history_file, ui>>

\* on_canvas_press, lines 567-632: the question while the simulation runs or
\* the counter is not 0 (or a redo exists), else the pressed cell is toggled.
CanvasPress ==
  /\ ui = "idle"
  /\ \E c \in EditCells(n) :
       IF running
         THEN /\ ui' = "dlg_press_run"
              /\ UNCHANGED <<heap, redraw_event, dirty, fresh>>
         ELSE IF can_redo(generation_history, gen_counter) \/ gen_counter > 0
           THEN /\ ui' = "dlg_press"
                /\ UNCHANGED <<heap, redraw_event, dirty, fresh>>
           ELSE /\ ui' = "dragging"
                /\ heap' = [heap EXCEPT ![T][c] = 1 - @]
                /\ redraw_event' = TRUE
                /\ dirty' = Touched
                /\ fresh' = FALSE
  /\ UNCHANGED <<n, T, Tnext, gen_counter, generation_history, threads,
                 barrier, bar, stop_event, running, step_event, speed,
                 swap_lock, pc, at, round, faults, since_step, survivors,
                 observed, since_pause, painted, history_file>>

\* The answer to the question of on_canvas_press: no (lines 582, 612), or yes:
\* the current grid becomes generation 0 of a new history (lines 586-595,
\* 616-618).
PressAnswer ==
  /\ ui \in {"dlg_press_run", "dlg_press"}
  /\ ui' = "idle"
  /\ \/ /\ running' = IF ui = "dlg_press_run" THEN FALSE ELSE running
        /\ gen_counter' = 0
        /\ generation_history' =
             save_state_to_history(EmptyHistory, heap[T], 0)
        /\ since_step' = 0 - 1
        /\ fresh' = TRUE
     \/ UNCHANGED <<running, gen_counter, generation_history, since_step,
                    fresh>>
  /\ UNCHANGED <<n, heap, T, Tnext, threads, barrier, bar, stop_event,
                 step_event, redraw_event, speed, swap_lock, pc, at, round,
                 faults, dirty, survivors, observed, since_pause, painted,
                 history_file>>

\* on_canvas_release, lines 672-682.
CanvasRelease ==
  /\ ui = "dragging"
  /\ ui' = "idle"
  /\ generation_history' =
       save_state_to_history(generation_history, heap[T], gen_counter)
  /\ redraw_event' = TRUE
  /\ fresh' = FALSE
  /\ UNCHANGED <<n, heap, T, Tnext, gen_counter, threads, barrier, bar,
                 stop_event, running, step_event, speed, swap_lock, pc, at,
                 round, faults, dirty, since_step, survivors, observed,
                 since_pause, painted, history_file>>

\* The handlers of the window can run: the event loop is not blocked.
EventLoopRuns == ui \notin {"menu", "stopping"}

\* ui_loop, lines 1343-1354, every 30 ms: the grid is repainted from T when
\* a redraw is requested, and the label is set from gen_counter; no lock is
\* taken.  A tick that finds redraw_event clear changes nothing of the state
\* and is a stuttering step.
UiLoop ==
  /\ EventLoopRuns
  /\ redraw_event
  /\ redraw_event' = FALSE
  /\ UNCHANGED <<n, heap, T, Tnext, gen_counter, generation_history, threads,
                 barrier, bar, stop_event, running, step_event, speed,
                 swap_lock, pc, at, round, faults, dirty, since_step,
                 survivors, observed, fresh, since_pause, painted,
                 history_file, ui>>

\* ui_loop with the repaint and the reset of the flag as two steps, worker
\* threads running between them.  Lines 1343-1345: redraw_event is found
\* set and redraw reads T; the main thread is inside ui_loop until line 1347.
UiPaint ==
  /\ ui = "idle"
  /\ redraw_event
  /\ painted' = heap[T]
  /\ ui' = "painting"
  /\ UNCHANGED <<n, heap, T, Tnext, gen_counter, generation_history, threads,
                 barrier, bar, stop_event, running, step_event, redraw_event,
                 speed, swap_lock, pc, at, round, faults, dirty, since_step,
                 survivors, observed, fresh, since_pause, history_file>>

\* Line 1347: redraw_event.clear(), whatever set the event meanwhile.
UiClear ==
  /\ ui = "painting"
  /\ redraw_event' = FALSE
  /\ ui' = "idle"
  /\ UNCHANGED <<n, heap, T, Tnext, gen_counter, generation_history, threads,
                 barrier, bar, stop_event, running, step_event, speed,
                 swap_lock, pc, at, round, faults, dirty, since_step,
                 survivors, observed, fresh, since_pause, painted, history_file>>

\* back_to_menu, lines 1286-1308, its question answered yes (answered no,
\* the handler returns and nothing has changed): running.clear(), then
\* stop_workers up to its time.sleep(0.1) (lines 235-239).
BackToMenu ==
  /\ ui = "idle"
  /\ running' = FALSE
  /\ since_step' = 0 - 1
  /\ fresh' = FALSE
  /\ IF threads # 0
       THEN /\ stop_event' = TRUE
            /\ ui' = "stopping"
       ELSE /\ stop_event' = stop_event
            /\ ui' = "menu"
  /\ UNCHANGED <<n, heap, T, Tnext, gen_counter, generation_history, threads,
                 barrier, bar, step_event, redraw_event, speed, swap_lock, pc,
                 at, round, faults, dirty, survivors, observed, since_pause,
                 painted, history_file>>

\* stop_workers after the sleep, lines 241-243, and back_to_menu, line 1312:
\* save_history_to_file.
StopWorkersEnd ==
  /\ ui = "stopping"
  /\ threads' = 0
  /\ stop_event' = FALSE
  /\ history_file' =
       <<save_history_to_file(generation_history, gen_counter, heap[T])>>
  /\ ui' = "menu"
  /\ UNCHANGED <<n, heap, T, Tnext, gen_counter, generation_history, barrier,
                 bar, running, step_event, redraw_event, speed, swap_lock, pc,
                 at, round, faults, dirty, since_step, survivors, observed,
                 fresh, since_pause, painted>>

\* ---------------------------------------------------------- specification
\* The engine and the handlers that start, pause, step and stop it, on a grid
\* of side GridSide, with faults injected.
WorkerStep(w) ==
  \/ Loop(w) \/ Gate(w) \/ Check(w) \/ Compute(w) \/ Fault(w)
  \/ Enter(w) \/ Leave(w)
  \/ Swap(w) \/ Incr(w) \/ Save(w) \/ SaveFault(w) \/ Redraw(w)
  \/ StepChk(w) \/ StepClr(w) \/ Pace(w) \/ Sleep(w) \/ Release(w)

Next ==
  \/ \E w \in Workers : WorkerStep(w)
  \/ OpenGame
  \/ ToggleStart
  \/ OneStep
  \/ UiLoop
  \/ BackToMenu
  \/ StopWorkersEnd

Spec == Init /\ [][Next]_vars

\* ------------------------------------------------------ one round, side 3
\* The patterns followed on the grid of side RoundSide: a 2x2 block, a row of
\* three, every cell alive, the four corners.
Patterns(size) ==
  { {<<1, 1>>, <<1, 2>>, <<2, 1>>, <<2, 2>>},
    {<<2, 1>>, <<2, 2>>, <<2, 3>>},
    Interior(size),
    {<<1, 1>>, <<1, size>>, <<size, 1>>, <<size, size>>} }

\* What the workers of one pool leave in Tnext when each has run lines
\* 157-169 once on the grid g.
Evolve(g, size) ==
  [c \in DOMAIN g |-> IF c \in Interior(size) THEN conway(g, c[1], c[2])
                                              ELSE g[c]]

\* The state of a game of side RoundSide in which one_step has been pressed
\* and every worker has passed the run gate and the test of line 153: either
\* the first round of the game (Tnext as make_grid left it), or its second
\* round (Tnext holds the grid of generation 0).
InitRound ==
  /\ n = RoundSide
  /\ \E live \in Patterns(RoundSide), first \in BOOLEAN :
       LET g0 == Fill(make_grid(RoundSide), RoundSide, live)
           g1 == Evolve(g0, RoundSide)
           done == IF first THEN 0 ELSE 1
       IN /\ first \/ has_living_cells(g1, RoundSide)
          /\ heap = [b \in {0, 1} |->
                       IF b = 0 THEN g0
                       ELSE IF first THEN make_grid(RoundSide) ELSE g1]
          /\ T = done
          /\ Tnext = 1 - done
          /\ gen_counter = done
          /\ generation_history =
               [k \in 0..done |-> IF k = 0 THEN g0 ELSE g1]
          /\ bar = [b \in Pools |->
                      IF b = 1 THEN [NewBarrier EXCEPT !.invoked = done,
                                                       !.released = done]
                      ELSE NewBarrier]
          /\ round = [w \in Workers |->
                        IF pool(w) = 1 /\ cell(w) \in Interior(RoundSide)
                          THEN done ELSE 0]
  /\ threads = 1
  /\ barrier = 1
  /\ stop_event = FALSE
  /\ running = TRUE
  /\ step_event = TRUE
  /\ redraw_event = FALSE
  /\ speed = 5
  /\ swap_lock = None
  /\ pc = [w \in Workers |->
             IF pool(w) = 1 /\ cell(w) \in Interior(RoundSide)
               THEN "compute" ELSE "unborn"]
  /\ at = [w \in Workers |-> 0]
  /\ faults = 0
  /\ dirty = FALSE
  /\ since_step = 0
  /\ survivors = FALSE
  /\ observed = {}
  /\ fresh = FALSE
  /\ since_pause = 0 - 1
  /\ painted = EmptyGrid
  /\ history_file = NoFile
  /\ ui = "idle"

\* The round and the completion action, with the mouse at work on the canvas.
\* ui_loop writes nothing but redraw_event and is left out.
NextRound ==
  \/ \E w \in Workers :
       \/ Compute(w) \/ Leave(w)
       \/ Swap(w) \/ Incr(w) \/ Save(w) \/ Redraw(w)
       \/ StepChk(w) \/ StepClr(w) \/ Pace(w) \/ Sleep(w) \/ Release(w)
  \/ CanvasPress
  \/ PressAnswer
  \/ CanvasRelease

SpecRound == InitRound /\ [][NextRound]_vars


\* ------------------------------------------- the history, side RoundSide
\* clear and randomize, lines 860-890 and 899-929: running is cleared, and
\* when the counter is not 0 a question is asked first.
Clear ==
  /\ ui = "idle"
  /\ running' = FALSE
  /\ IF gen_counter > 0
       THEN /\ ui' = "dlg_clear"
            /\ UNCHANGED <<heap, gen_counter, generation_history, redraw_event,
                           fresh>>
       ELSE /\ ui' = ui
            /\ heap' = [heap EXCEPT ![T] = clear_grid(heap[T], n)]
            /\ gen_counter' = 0
            /\ generation_history' =
                 save_state_to_history(EmptyHistory, heap'[T], 0)
            /\ redraw_event' = TRUE
            /\ fresh' = TRUE
  /\ UNCHANGED <<n, T, Tnext, threads, barrier, bar, stop_event, step_event,
                 speed, swap_lock, pc, at, round, faults, dirty, since_step,
                 survivors, observed, since_pause, painted, history_file>>

Randomize ==
  /\ ui = "idle"
  /\ running' = FALSE
  /\ IF gen_counter > 0
       THEN /\ ui' = "dlg_random"
            /\ UNCHANGED <<heap, gen_counter, generation_history, redraw_event,
                           fresh>>
       ELSE /\ ui' = ui
            /\ \E g \in randomize_grid(heap[T], n) :
                 /\ heap' = [heap EXCEPT ![T] = g]
                 /\ generation_history' =
                      save_state_to_history(EmptyHistory, g, 0)
            /\ gen_counter' = 0
            /\ redraw_event' = TRUE
            /\ fresh' = TRUE
  /\ UNCHANGED <<n, T, Tnext, threads, barrier, bar, stop_event, step_event,
                 speed, swap_lock, pc, at, round, faults, dirty, since_step,
                 survivors, observed, since_pause, painted, history_file>>

\* The answer to the question of clear or randomize: no (lines 876-877,
\* 915-916), or yes (lines 880-888, 919-927).
ResetAnswer ==
  /\ ui \in {"dlg_clear", "dlg_random"}
  /\ ui' = "idle"
  /\ \/ UNCHANGED <<heap, gen_counter, generation_history, redraw_event,
                    fresh>>
     \/ /\ \E g \in (IF ui = "dlg_clear" THEN {clear_grid(heap[T], n)}
                     ELSE randomize_grid(heap[T], n)) :
             /\ heap' = [heap EXCEPT ![T] = g]
             /\ generation_history' =
                  save_state_to_history(EmptyHistory, g, 0)
        /\ gen_counter' = 0
        /\ redraw_event' = TRUE
        /\ fresh' = TRUE
  /\ UNCHANGED <<n, T, Tnext, threads, barrier, bar, stop_event, running,
                 step_event, speed, swap_lock, pc, at, round, faults, dirty,
                 since_step, survivors, observed, since_pause, painted,
                 history_file>>

\* The navigation that requests the redraw whatever the function returns.
\* A faulty variant, kept to show that the property of the refused navigation
\* tells it from Navigate.
Navigate_redraw(direction) ==
  /\ ui = "idle"
  /\ running' = FALSE
  /\ LET r == load_state_from_history(generation_history, heap[T],
                                      gen_counter, redraw_event, direction)
     IN /\ heap' = [heap EXCEPT ![T] = r.T]
        /\ gen_counter' = r.gen_counter
        /\ redraw_event' = TRUE
        /\ ui' = IF r.raised THEN "raised"
                ELSE IF r.ok THEN "idle" ELSE "info"
        /\ fresh' = (fresh /\ ~r.ok /\ ~r.raised)
  /\ UNCHANGED <<n, T, Tnext, generation_history, threads, barrier, bar,
                 stop_event, step_event, speed, swap_lock, pc, at, round,
                 faults, dirty, since_step, survivors, observed, since_pause,
                 painted, history_file>>

\* undo and redo, lines 938-953 and 961-976: running is cleared and
\* load_state_from_history is called; when it returns False a message box is
\* shown; when it raises, the handler ends there and Tk reports the
\* exception.  The direction "sideways" is the call with a direction the
\* function does not know (lines 80-82), which no handler of the window makes.
Navigate(direction) ==
  /\ ui = "idle"
  /\ running' = FALSE
  /\ LET r == load_state_from_history(generation_history, heap[T],
                                      gen_counter, redraw_event, direction)
     IN /\ heap' = [heap EXCEPT ![T] = r.T]
        /\ gen_counter' = r.gen_counter
        /\ redraw_event' = r.redraw_event
        /\ ui' = IF r.raised THEN "raised"
                ELSE IF r.ok THEN "idle" ELSE "info"
        /\ fresh' = (fresh /\ ~r.ok /\ ~r.raised)
  /\ UNCHANGED <<n, T, Tnext, generation_history, threads, barrier, bar,
                 stop_event, step_event, speed, swap_lock, pc, at, round,
                 faults, dirty, since_step, survivors, observed, since_pause,
                 painted, history_file>>

\* The message box is closed.
InfoClose ==
  /\ ui = "info"
  /\ ui' = "idle"
  /\ UNCHANGED <<n, heap, T, Tnext, gen_counter, generation_history, threads,
                 barrier, bar, stop_event, running, step_event, redraw_event,
                 speed, swap_lock, pc, at, round, faults, dirty, since_step,
                 survivors, observed, fresh, since_pause, painted, history_file>>

\* one_step (lines 823-843) and the generation it asks for, run to the end
\* of its completion action before the main thread does anything else: every
\* worker passes the run gate and writes its cell (lines 148-169), the action
\* swaps, increments and records (lines 102-112), requests the redraw and
\* clears step_event and running (lines 115-122), and the workers are back at
\* the run gate.  The counters of the rounds and of the barrier cycles are
\* not followed here.
Generation ==
  /\ ui = "idle"
  /\ ~(running \/ step_event)
  /\ has_living_cells(heap[T], n)
  /\ gen_counter < MAX_HISTORY_GENERATIONS + MaxEvict
  /\ heap' = [heap EXCEPT ![Tnext] = Evolve(heap[T], n)]
  /\ T' = Tnext
  /\ Tnext' = T
  /\ gen_counter' = gen_counter + 1
  /\ generation_history' =
       save_state_to_history(
         save_state_to_history(generation_history, heap[T], gen_counter),
         heap'[T'], gen_counter')
  /\ redraw_event' = TRUE
  /\ fresh' = FALSE
  /\ since_pause' = 0 - 1
  /\ UNCHANGED <<n, threads, barrier, bar, stop_event, running, step_event,
                 speed, swap_lock, pc, at, round, faults, dirty, since_step,
                 survivors, observed, painted, history_file, ui>>

\* A row of three cells, which a generation turns into a column and the next
\* one into the row again; the grid it has become at generation k.
Blinker == Fill(make_grid(RoundSide), RoundSide, {<<2, 1>>, <<2, 2>>, <<2, 3>>})
BlinkerAt(k) == IF k % 2 = 0 THEN Blinker ELSE Evolve(Blinker, RoundSide)

\* gamelife_history.json as the process finds it: absent; written by
\* back_to_menu in an earlier run, of a game stepped from a row of three cells
\* up to MaxEvict generations short of MAX_HISTORY_GENERATIONS; or a file of
\* the same format that holds one entry more than MAX_HISTORY_GENERATIONS.
LongGame ==
  save_history_to_file(
    [k \in 0..(MAX_HISTORY_GENERATIONS - MaxEvict) |-> BlinkerAt(k)],
    MAX_HISTORY_GENERATIONS - MaxEvict,
    BlinkerAt(MAX_HISTORY_GENERATIONS - MaxEvict))
Oversized ==
  save_history_to_file(
    [k \in 0..MAX_HISTORY_GENERATIONS |-> BlinkerAt(k)],
    MAX_HISTORY_GENERATIONS,
    BlinkerAt(MAX_HISTORY_GENERATIONS))
HistoryFiles == {NoFile, <<LongGame>>, <<Oversized>>}

\* The process at its start, the grid of side RoundSide.
InitHistory ==
  /\ n = RoundSide
  /\ heap = [b \in {0, 1} |-> EmptyGrid]
  /\ T = 0
  /\ Tnext = 1
  /\ gen_counter = 0
  /\ generation_history = EmptyHistory
  /\ threads = 0
  /\ barrier = 0
  /\ bar = [b \in Pools |-> NewBarrier]
  /\ stop_event = FALSE
  /\ running = FALSE
  /\ step_event = FALSE
  /\ redraw_event = FALSE
  /\ speed = 5
  /\ swap_lock = None
  /\ pc = [w \in Workers |-> "unborn"]
  /\ at = [w \in Workers |-> 0]
  /\ round = [w \in Workers |-> 0]
  /\ faults = 0
  /\ dirty = FALSE
  /\ since_step = 0 - 1
  /\ survivors = FALSE
  /\ observed = {}
  /\ fresh = FALSE
  /\ since_pause = 0 - 1
  /\ painted = EmptyGrid
  /\ history_file \in HistoryFiles
  /\ ui = "menu"

\* The handlers that record, navigate, reset, persist and load, one at a time
\* with the simulation paused between them.
NextHistory ==
  \/ OpenGame
  \/ Generation
  \/ \E direction \in Directions : Navigate(direction)
  \/ InfoClose
  \/ Clear
  \/ Randomize
  \/ ResetAnswer
  \/ UiLoop
  \/ BackToMenu
  \/ StopWorkersEnd

SpecHistory == InitHistory /\ [][NextHistory]_vars

\* --------------------------------------- files of other games, side GridSide
\* Tk reports the exception a handler raised (report_callback_exception) and
\* the event loop goes on.
HandlerRaised ==
  /\ ui = "raised"
  /\ ui' = "idle"
  /\ UNCHANGED <<n, heap, T, Tnext, gen_counter, generation_history, threads,
                 barrier, bar, stop_event, running, step_event, redraw_event,
                 speed, swap_lock, pc, at, round, faults, dirty, since_step,
                 survivors, observed, fresh, since_pause, painted, history_file>>

\* The file back_to_menu writes when a game of the given side, started with
\* the cells of live alive, has been stepped once.
SteppedGame(size, live) ==
  LET g0 == Fill(make_grid(size), size, live)
      g1 == Evolve(g0, size)
  IN save_history_to_file(
       save_state_to_history(save_state_to_history(EmptyHistory, g0, 0),
                             g1, 1),
       1, g1)

\* The file back_to_menu writes when the grid of a game of the given side has
\* been cleared.
ClearedGame(size) ==
  LET g0 == clear_grid(make_grid(size), size)
  IN save_history_to_file(save_state_to_history(EmptyHistory, g0, 0), 0, g0)

\* gamelife_history.json as a process with a grid of side GridSide finds it:
\* left by a game of a larger grid (every cell alive, then the four corners),
\* by a game of a smaller grid, or by a game of the same side whose grid was
\* cleared.
OtherFiles ==
  {<<SteppedGame(RoundSide, Interior(RoundSide))>>,
   <<SteppedGame(SmallSide, Interior(SmallSide))>>,
   <<ClearedGame(GridSide)>>}

\* The process at its start, the grid of side GridSide.
InitFiles ==
  /\ n = GridSide
  /\ heap = [b \in {0, 1} |-> EmptyGrid]
  /\ T = 0
  /\ Tnext = 1
  /\ gen_counter = 0
  /\ generation_history = EmptyHistory
  /\ threads = 0
  /\ barrier = 0
  /\ bar = [b \in Pools |-> NewBarrier]
  /\ stop_event = FALSE
  /\ running = FALSE
  /\ step_event = FALSE
  /\ redraw_event = FALSE
  /\ speed = 5
  /\ swap_lock = None
  /\ pc = [w \in Workers |-> "unborn"]
  /\ at = [w \in Workers |-> 0]
  /\ round = [w \in Workers |-> 0]
  /\ faults = 0
  /\ dirty = FALSE
  /\ since_step = 0 - 1
  /\ survivors = FALSE
  /\ observed = {}
  /\ fresh = FALSE
  /\ since_pause = 0 - 1
  /\ painted = EmptyGrid
  /\ history_file \in OtherFiles
  /\ ui = "menu"

\* The game opened on the file and the handlers of the window that start and
\* pause, navigate, reset and leave; no generation is computed.
NextFiles ==
  \/ OpenGame
  \/ ToggleStart
  \/ \E direction \in Directions : Navigate(direction)
  \/ InfoClose
  \/ HandlerRaised
  \/ Clear
  \/ Randomize
  \/ ResetAnswer
  \/ UiLoop
  \/ BackToMenu
  \/ StopWorkersEnd

SpecFiles == InitFiles /\ [][NextFiles]_vars

\* ------------------------------------------------- the whole game, side 1
\* The process at its start, the grid of side SmallSide: one cell, one worker
\* in each pool, a barrier of one party.
InitSmall ==
  /\ n = SmallSide
  /\ heap = [b \in {0, 1} |-> EmptyGrid]
  /\ T = 0
  /\ Tnext = 1
  /\ gen_counter = 0
  /\ generation_history = EmptyHistory
  /\ threads = 0
  /\ barrier = 0
  /\ bar = [b \in Pools |-> NewBarrier]
  /\ stop_event = FALSE
  /\ running = FALSE
  /\ step_event = FALSE
  /\ redraw_event = FALSE
  /\ speed = 5
  /\ swap_lock = None
  /\ pc = [w \in Workers |-> "unborn"]
  /\ at = [w \in Workers |-> 0]
  /\ round = [w \in Workers |-> 0]
  /\ faults = 0
  /\ dirty = FALSE
  /\ since_step = 0 - 1
  /\ survivors = FALSE
  /\ observed = {}
  /\ fresh = FALSE
  /\ since_pause = 0 - 1
  /\ painted = EmptyGrid
  /\ history_file = NoFile
  /\ ui = "menu"

\* The engine with the handlers of the buttons: start, pause, step, undo and
\* redo, clear and randomize, and the return to the menu.  A barrier of one
\* party has no thread waiting in it.
NextSmall ==
  \/ \E w \in Workers :
       \/ Loop(w) \/ Gate(w) \/ Check(w) \/ Compute(w) \/ Fault(w)
       \/ Swap(w) \/ Incr(w) \/ Save(w) \/ SaveFault(w) \/ Redraw(w)
       \/ StepChk(w) \/ StepClr(w) \/ Pace(w) \/ Sleep(w) \/ Release(w)
  \/ OpenGame
  \/ ToggleStart
  \/ OneStep
  \/ \E direction \in Directions : Navigate(direction)
  \/ InfoClose
  \/ Clear
  \/ Randomize
  \/ ResetAnswer
  \/ UiLoop
  \/ BackToMenu
  \/ StopWorkersEnd

SpecSmall == InitSmall /\ [][NextSmall]_vars

\* ------------------------------------------------ a game opened again, side 1
\* The engine with the handlers that start, pause and step it, the return to
\* the menu and a game opened again: the second pool is created while threads
\* of the first may still be alive.
NextRestart ==
  \/ \E w \in Workers :
       \/ Loop(w) \/ Gate(w) \/ Check(w) \/ Compute(w) \/ Enter(w)
       \/ Swap(w) \/ Incr(w) \/ Save(w) \/ Redraw(w)
       \/ StepChk(w) \/ StepClr(w) \/ Pace(w) \/ Sleep(w) \/ Release(w)
  \/ NewGame(RestartPools)
  \/ ToggleStart
  \/ OneStep
  \/ UiLoop
  \/ BackToMenu
  \/ StopWorkersEnd

SpecRestart == InitSmall /\ [][NextRestart]_vars

\* ------------------------------------------- the engine left alone, side 2
\* A step of worker w when running stays set, no stop is requested and no
\* fault is injected.
LiveStep(w) ==
  \/ Loop(w) \/ Gate(w) \/ Check(w) \/ Compute(w) \/ Enter(w) \/ Leave(w)
  \/ Swap(w) \/ Incr(w) \/ Save(w) \/ Redraw(w)
  \/ StepChk(w) \/ Pace(w) \/ Sleep(w) \/ Release(w)

\* The game is opened, running as it was saved, and the main thread only
\* repaints.
NextLive ==
  \/ \E w \in Workers : LiveStep(w)
  \/ OpenGame
  \/ UiLoop

\* The threads of the pool are scheduled fairly: a thread that can take a
\* step takes it (the gate polls every 10 ms, wait() returns once notified,
\* the sleep of the action ends).
FairWorkers ==
  \A w \in {1} \X Interior(GridSide) : WF_vars(LiveStep(w))

SpecLive == Init /\ [][NextLive]_vars /\ FairWorkers

\* ------------------------------------------------ the engine and the repaint
\* The running engine with ui_loop in two steps, the repaint and the reset of
\* redraw_event.
NextPaint ==
  \/ \E w \in Workers : LiveStep(w)
  \/ OpenGame
  \/ UiPaint
  \/ UiClear

SpecPaint == Init /\ [][NextPaint]_vars

\* ------------------------------------------- load_history_from_file alone
\* A key of the history that int() accepts.
Numeral(s) == \E k \in 0..MaxKey : ToString(k) = s

\* gamelife_history.json as a document: history, current_gen and grid_state
\* as save_history_to_file writes them, and torn, the index of the first row
\* of grid_state that is not a list (a number where a row should be), -1 when
\* every row is a list.
\*
\* load_history_from_file, lines 174-217, on the document f, the history h,
\* the counter gen and the grid g that T names: what it leaves in
\* generation_history, gen_counter and T, and whether an exception was raised
\* and swallowed by line 215.  A key that int() refuses raises inside the
\* comprehension of lines 194-196, before the assignment.  The history and the
\* counter are assigned (lines 194-199) before the grid is read; the rows of
\* the grid are copied one after the other (lines 205-214), and len() of a row
\* that is not a list raises with the rows before it already copied.
load_history_from_file(f, h, gen, g) ==
  IF \E s \in DOMAIN f.history : ~Numeral(s)
    THEN [generation_history |-> h, gen_counter |-> gen, T |-> g,
          raised |-> TRUE]
    ELSE [generation_history |->
            [k \in {int(s) : s \in DOMAIN f.history} |-> f.history[str(k)]],
          gen_counter |-> f.current_gen,
          T |-> IF f.grid_state = EmptyGrid \/ g = EmptyGrid THEN g
                ELSE [c \in DOMAIN g |->
                        IF /\ c \in DOMAIN f.grid_state
                           /\ (f.torn < 0 \/ c[1] < f.torn)
                          THEN f.grid_state[c] ELSE g[c]],
          raised |-> f.torn >= 0]

\* The grids of a game of side GridSide started with every cell alive, and
\* with one cell alive.
FullGrid == Fill(make_grid(GridSide), GridSide, Interior(GridSide))
LoneGrid == Fill(make_grid(GridSide), GridSide, {<<1, 1>>})

\* The documents the process may find: the one back_to_menu wrote after one
\* generation; the same with a key that is no number; the same with a row of
\* grid_state replaced by a number, the first row or the third.
LoadFiles ==
  LET written == ("0" :> FullGrid) @@ ("1" :> Evolve(FullGrid, GridSide))
      badkey == ("0" :> FullGrid) @@ ("x" :> LoneGrid)
      doc(h, t) == [history |-> h, current_gen |-> 1,
                    grid_state |-> LoneGrid, torn |-> t]
  IN {<<doc(written, 0 - 1)>>, <<doc(badkey, 0 - 1)>>,
      <<doc(written, 0)>>, <<doc(written, 2)>>}

\* generation_history when a window is opened: empty in a new process, or
\* what the previous game of the process left in it.
EarlierHistories ==
  {EmptyHistory,
   save_state_to_history(EmptyHistory, LoneGrid, 0),
   save_state_to_history(save_state_to_history(EmptyHistory, LoneGrid, 0),
                         Evolve(LoneGrid, GridSide), 1)}

\* ModernApp.__init__ between start_workers (line 150) and
\* load_history_from_file (line 153): the grids are new, the counter is 0,
\* the threads of the pool have been started and running is clear.
InitLoad ==
  /\ n = GridSide
  /\ heap = [b \in {0, 1} |-> make_grid(GridSide)]
  /\ T = 0
  /\ Tnext = 1
  /\ gen_counter = 0
  /\ generation_history \in EarlierHistories
  /\ threads = 1
  /\ barrier = 1
  /\ bar = [b \in Pools |-> NewBarrier]
  /\ stop_event = FALSE
  /\ running = FALSE
  /\ step_event = FALSE
  /\ redraw_event = FALSE
  /\ speed = 5
  /\ swap_lock = None
  /\ pc = [w \in Workers |->
             IF pool(w) = 1 /\ cell(w) \in Interior(GridSide)
               THEN "loop" ELSE "unborn"]
  /\ at = [w \in Workers |-> 0]
  /\ round = [w \in Workers |-> 0]
  /\ faults = 0
  /\ dirty = FALSE
  /\ since_step = 0 - 1
  /\ survivors = FALSE
  /\ observed = {}
  /\ fresh = FALSE
  /\ since_pause = 0 - 1
  /\ painted = EmptyGrid
  /\ history_file \in LoadFiles
  /\ ui = "opening"

\* Line 153 of ModernApp.__init__: hm.load_history_from_file()
LoadHistory ==
  /\ ui = "opening"
  /\ LET r == load_history_from_file(history_file[1], generation_history,
                                     gen_counter, heap[T])
     IN /\ generation_history' = r.generation_history
        /\ gen_counter' = r.gen_counter
        /\ heap' = [heap EXCEPT ![T] = r.T]
  /\ ui' = "loaded"
  /\ UNCHANGED <<n, T, Tnext, threads, barrier, bar, stop_event, running,
                 step_event, redraw_event, speed, swap_lock, pc, at, round,
                 faults, dirty, since_step, survivors, observed, fresh,
                 since_pause, painted, history_file>>

\* The call of line 153 and the threads of the pool on their way to the run
\* gate.
NextLoad ==
  \/ \E w \in Workers : Loop(w)
  \/ LoadHistory

SpecLoad == InitLoad /\ [][NextLoad]_vars
\* ------------------------------------------------------------- properties
\* The workers start_workers created for the pool of w.
SamePool(w) ==
  {v \in Workers : pool(v) = pool(w) /\ cell(v) \in Interior(n)}

\* The worker running the completion action of barrier b, and the workers
\* blocked in its wait().
Actors(b) == {w \in Workers : at[w] = b /\ pc[w] \in ActionPcs}
Waiters(b) == {w \in Workers : at[w] = b /\ pc[w] = "waiting"}

\* Worker w makes the step from one place of its code to another.
Moves(w, from, to) == pc[w] = from /\ pc'[w] = to

\* C1: lock-step ordering.  In a pool that runs alone, whenever a worker reads
\* the current grid for its round r+1 (it has computed r times before), every
\* worker of the pool has written its cell for round r, and the completion
\* action of round r has been run to its end: r cycles of the barrier have
\* been released and no action is running.
C1_LockStep ==
  [][~survivors' =>
       \A w \in Workers :
         round'[w] = round[w] + 1 =>
           /\ \A v \in SamePool(w) : round[v] >= round[w]
           /\ bar[pool(w)].released >= round[w]
           /\ Actors(pool(w)) = {}]_vars

\* A worker has read the current grid for a second round.
C1_SecondRound == ~survivors /\ \E w \in Workers : round[w] = 2

\* The neighbours of a cell, and how many of them are alive in g, the border
\* counted as dead.
Around(c) ==
  {<<c[1] + d[1], c[2] + d[2]>> : d \in ({-1, 0, 1} \X {-1, 0, 1}) \ {<<0, 0>>}}
AliveAround(g, c) ==
  Cardinality({e \in Around(c) \cap Interior(n) : g[e] = 1})
LifeRule(g, c) ==
  \/ g[c] = 1 /\ AliveAround(g, c) \in {2, 3}
  \/ g[c] = 0 /\ AliveAround(g, c) = 3
Alive(g) == {c \in Interior(n) : g[c] = 1}
Block == {<<1, 1>>, <<1, 2>>, <<2, 1>>, <<2, 2>>}

\* C2: one generation is Conway's step.  When the round had no write to the
\* grid from outside the pool, the swap makes current a grid in which every
\* interior cell is 1 if and only if it was alive with 2 or 3 alive neighbours
\* or dead with exactly 3 in the grid that was current, and is 0 otherwise; a
\* 2x2 block alone on the grid is left as it was.
C2_ConwayStep ==
  [][\A w \in Workers :
       (Moves(w, "swap", "incr") /\ ~dirty /\ ~survivors) =>
         /\ \A c \in Interior(n) :
              /\ heap'[T'][c] \in {0, 1}
              /\ heap'[T'][c] = 1 <=> LifeRule(heap[T], c)
         /\ Alive(heap[T]) = Block => Alive(heap'[T']) = Block]_vars

\* The swap has just made current the successor of a 2x2 block, after a round
\* nobody else wrote in.
C2_BlockKept ==
  /\ ~dirty
  /\ \E w \in Workers : pc[w] = "incr"
  /\ Alive(heap[Tnext]) = Block
  /\ Alive(heap[T]) = Block

\* C3: once stop_workers has returned, no worker of the stopped pool
\* increments the generation counter.
C3_NoIncrementAfterStop ==
  [][\A w \in Workers :
       (Moves(w, "incr", "save") /\ faults = 0) => ~stopped(pool(w))]_vars

\* C4: no barrier starvation.  No worker is blocked in wait() for arrivals on
\* a barrier while a worker of the pool the barrier was sized for has ended.
C4_NoStarvation ==
  \A w \in Workers :
    (pc[w] = "waiting" /\ bar[at[w]].state = Filling /\ faults = 0) =>
      ~\E v \in Workers : pool(v) = at[w] /\ pc[v] \in DonePcs

\* The workers of pool p that have not ended.
Remaining(p) == {v \in Workers : pool(v) = p /\ pc[v] \notin DonePcs \cup {"unborn"}}

\* C5: a fault in one cell computation is contained.  While running is set,
\* the remaining workers of the pool are not all blocked on a barrier that
\* is waiting for the arrival of the worker that ended.
C5_FaultContained ==
  \A v \in Workers :
    (pc[v] = "done_fault" /\ running /\ Remaining(pool(v)) # {}) =>
      ~\A u \in Remaining(pool(v)) :
          pc[u] = "waiting" /\ bar[at[u]].state = Filling

\* C6: a failure of the snapshot write inside the completion action ends no
\* worker: neither the one that ran the action nor those it should release.
C6_ActionFaultContained ==
  \A w \in Workers : pc[w] \notin {"done_action", "done_broken"}

\* C7: single step.  When the completion action clears the request of a
\* one_step that no other handler followed, exactly one generation has been
\* completed since the request.
C7_ExactlyOneGeneration ==
  [][\A w \in Workers :
       (Moves(w, "stepclr", "pace") /\ since_step >= 0 /\ faults = 0) =>
         since_step = 1]_vars

\* C8: the completion action of a barrier is invoked once per cycle, by the
\* last worker to arrive, and never twice at a time: at most one worker runs
\* it, and while one does, all N*N parties are counted and the N*N-1 others are
\* blocked in wait(); the invocations exceed the released cycles by one while
\* the action runs (or has broken the barrier), by none otherwise.
C8_ActionOncePerCycle ==
  \A b \in Pools :
    /\ Cardinality(Actors(b)) <= 1
    /\ Actors(b) # {} =>
         /\ bar[b].count = n * n
         /\ bar[b].state = Filling
         /\ Cardinality(Waiters(b)) = n * n - 1
    /\ bar[b].invoked - bar[b].released =
         (IF Actors(b) # {} \/ bar[b].state = Broken THEN 1 ELSE 0)

\* The action of a barrier is running for the second time.
C8_SecondInvocation ==
  \E b \in Pools : bar[b].invoked = 2 /\ Actors(b) # {}

\* C9: the swap and the increment are one unit for the observers.  ui_loop
\* never repaints the grid and the label while the buffers are exchanged and
\* the counter is still the old one.
C9_AtomicForObservers ==
  [][(redraw_event /\ ~redraw_event' /\ faults = 0) =>
       ~\E w \in Workers : pc[w] = "incr"]_vars

\* C10: the swap.  The exchange makes current the buffer the workers wrote as
\* next and makes next the old current, touching neither the cells nor the
\* counter; the increment that completes it adds exactly one to the counter
\* and touches no buffer; the two names never denote the same buffer.
C10_SwapExchange ==
  [][/\ T' # Tnext'
     /\ \A w \in Workers :
          /\ Moves(w, "swap", "incr") =>
               /\ T' = Tnext
               /\ Tnext' = T
               /\ heap' = heap
               /\ gen_counter' = gen_counter
          /\ Moves(w, "incr", "save") =>
               /\ gen_counter' = gen_counter + 1
               /\ T' = T
               /\ Tnext' = Tnext
               /\ heap' = heap]_vars

\* The second swap of a game is complete: the counter is 2 and current is
\* again the first buffer.
C10_SecondSwap ==
  \E w \in Workers : pc[w] = "save" /\ gen_counter = 2 /\ T = 0

\* C11 -- Terminated is terminal: a worker that has observed stop_event set
\* leaves its loop for good and neither writes a cell nor arrives at the
\* barrier again, even after stop_event has been cleared.  The tests of lines
\* 146 and 153 end the thread, but the run gate of line 148 reads stop_event
\* too, and a worker that left the gate on it goes on to the test of line 153:
\* when stop_workers has cleared the flag by then (lines 237-239, the fault of
\* C3), the worker computes its cell and calls barrier.wait().
C11_ObservedStopIsTerminal ==
  [][\A w \in observed : round'[w] = round[w]]_vars

\* C12 -- the workers of a round are free of data races.  A worker that makes
\* its computation writes one cell only, its own, and writes it in the next
\* buffer; the current buffer is a different object and no cell of it
\* changes; the value written is the rule applied to the current buffer, so
\* that nothing of the next buffer is read; and the two names are exchanged
\* only when every worker of the pool is inside the barrier, none of them
\* between its reads and its arrival.
C12_DisjointReadsAndWrites ==
  [][/\ \A w \in Workers :
          round'[w] # round[w] =>
            /\ T # Tnext /\ T' = T /\ Tnext' = Tnext
            /\ heap'[T] = heap[T]
            /\ \A c \in DOMAIN heap[Tnext] :
                 c # cell(w) => heap'[Tnext][c] = heap[Tnext][c]
            /\ heap'[Tnext][cell(w)] = 1 <=> LifeRule(heap[T], cell(w))
            /\ heap'[Tnext][cell(w)] = 0 <=> ~LifeRule(heap[T], cell(w))
     /\ \A w \in Workers :
          Moves(w, "swap", "incr") =>
            \A v \in SamePool(w) \ {w} : pc[v] = "waiting" /\ at[v] = at[w]
    ]_vars

\* Part of the pool has written its cell for the round and part has not, and
\* a cell written differs from the cell read at the same place.
C12_RoundHalfWritten ==
  \E w, v \in Workers :
    /\ pool(w) = pool(v)
    /\ round[w] > round[v]
    /\ pc[v] = "compute"
    /\ pc[w] = "waiting"
    /\ heap[Tnext][cell(w)] # heap[T][cell(w)]

\* A step of the main thread: no live worker moves.
ControllerStep == \A w \in Workers : pc[w] # "unborn" => pc'[w] = pc[w]

\* C13 -- the generation counter.  It is 0 when the program starts and 0
\* when start_workers has run (before a saved history is loaded); a step of a
\* worker changes it only at line 106, by exactly 1, once in each run of the
\* completion action; every other change, and so every decrease, is made by
\* the main thread (navigation, reset, load).
C13_CounterMonotonic ==
  /\ gen_counter = 0
  /\ [][/\ (barrier' # barrier /\ history_file = NoFile) => gen_counter' = 0
        /\ \A w \in Workers :
             /\ Moves(w, "incr", "save") => gen_counter' = gen_counter + 1
             /\ (pc[w] = "swap" /\ pc'[w] # pc[w]) => pc'[w] = "incr"
             /\ (pc[w] = "incr" /\ pc'[w] # pc[w]) => pc'[w] = "save"
        /\ gen_counter' # gen_counter =>
             \/ ControllerStep
             \/ \E w \in Workers : Moves(w, "incr", "save")
        /\ gen_counter' < gen_counter => ControllerStep
       ]_vars

\* The completion action has incremented the counter a second time.
C13_SecondIncrement ==
  /\ gen_counter = 2
  /\ \E w \in Workers : pc[w] = "save"

\* Where the completion action is once line 112 has returned.
RecordedPcs == {"redraw", "stepchk", "stepclr", "pace", "sleep", "release"}

Keys == DOMAIN generation_history
Smallest(k) == k \in Keys /\ \A j \in Keys : k <= j
Largest(k) == k \in Keys /\ \A j \in Keys : j <= k
Earlier == {k \in Keys : k < gen_counter}
Later == {k \in Keys : k > gen_counter}

C16_EvictsSmallest ==
  /\ []((Cardinality(Keys) <= MAX_HISTORY_GENERATIONS
         /\ Largest(gen_counter)
         /\ gen_counter >= MAX_HISTORY_GENERATIONS) =>
          /\ Cardinality(Keys) = MAX_HISTORY_GENERATIONS
          /\ Smallest(gen_counter - MAX_HISTORY_GENERATIONS + 1))
  /\ [][(/\ gen_counter' = gen_counter + 1
         /\ gen_counter' \notin Keys
         /\ Cardinality(Keys) <= MAX_HISTORY_GENERATIONS) =>
          LET evicted == IF Cardinality(Keys) = MAX_HISTORY_GENERATIONS
                           THEN {k \in Keys : Smallest(k)} ELSE {}
          IN /\ DOMAIN generation_history' =
                  (Keys \cup {gen_counter'}) \ evicted
             /\ \A k \in Keys \ evicted :
                  k # gen_counter =>
                    generation_history'[k] = generation_history[k]
             /\ generation_history'[gen_counter'] = heap'[T']
        ]_vars

\* MAX + 2 generations have been recorded in turn: the history is full and
\* its smallest key is 2.
C16_TwoEvicted ==
  /\ Cardinality(Keys) = MAX_HISTORY_GENERATIONS
  /\ Largest(gen_counter)
  /\ gen_counter = MAX_HISTORY_GENERATIONS + 1
  /\ Smallest(2)

\* C17 -- navigation target.  In every state, load_state_from_history
\* succeeds for "undo" exactly when a stored generation is smaller than the
\* counter and then goes to the largest of them, and for "redo" exactly when
\* one is greater and then goes to the smallest of them; the grid it leaves
\* is the stored snapshot, cell for cell, and the counter is its key.  A step
\* of the window that moves the counter within an unchanged history does the
\* same to T and gen_counter.
C17_NavigationTarget ==
  /\ [](LET u == load_state_from_history(generation_history, heap[T],
                                         gen_counter, redraw_event, "undo")
            r == load_state_from_history(generation_history, heap[T],
                                         gen_counter, redraw_event, "redo")
        IN /\ u.ok <=> Earlier # {}
           /\ r.ok <=> Later # {}
           /\ u.ok => /\ u.gen_counter \in Earlier
                      /\ \A k \in Earlier : k <= u.gen_counter
                      /\ u.T = generation_history[u.gen_counter]
           /\ r.ok => /\ r.gen_counter \in Later
                      /\ \A k \in Later : k >= r.gen_counter
                      /\ r.T = generation_history[r.gen_counter])
  /\ [][(/\ ui = "idle" /\ ui' = "idle"
         /\ generation_history' = generation_history
         /\ gen_counter' # gen_counter) =>
          /\ gen_counter' \in Keys
          /\ \A k \in Keys : ~(k < gen_counter' /\ gen_counter < k)
          /\ \A k \in Keys : ~(k > gen_counter' /\ gen_counter > k)
          /\ heap'[T'] = generation_history[gen_counter']
        ]_vars

\* An undo has gone back from the newest generation, past the maximum, to the
\* one before it, whose snapshot is the grid; the oldest generations are gone.
C17_Undone ==
  /\ ui = "idle"
  /\ gen_counter = MAX_HISTORY_GENERATIONS
  /\ Largest(gen_counter + 1)
  /\ ~Smallest(0)
  /\ heap[T] = generation_history[gen_counter]
  /\ heap[T] # generation_history[gen_counter + 1]

\* C18 -- refused navigation.  With no eligible snapshot (the history empty,
\* no smaller key for undo, no greater key for redo, a direction that is
\* neither) load_state_from_history returns False and leaves the grid, the
\* counter and the redraw flag as they were; the step of the window that ends
\* in the message box changes nothing of grid, counter, history and redraw
\* flag, and is taken only when some direction has no eligible snapshot.
C18_RefusedNavigation ==
  /\ [](\A d \in Directions :
          LET r == load_state_from_history(generation_history, heap[T],
                                           gen_counter, redraw_event, d)
              eligible == IF d = "undo" THEN Earlier
                          ELSE IF d = "redo" THEN Later ELSE {}
          IN eligible = {} =>
               /\ r.ok = FALSE
               /\ r.T = heap[T]
               /\ r.gen_counter = gen_counter
               /\ r.redraw_event = redraw_event)
  /\ [][(ui = "idle" /\ ui' = "info") =>
          /\ heap' = heap /\ T' = T /\ Tnext' = Tnext
          /\ gen_counter' = gen_counter
          /\ generation_history' = generation_history
          /\ redraw_event' = redraw_event
        ]_vars

\* The message box of a refused navigation is shown, no redraw is pending,
\* and the counter is at the oldest generation kept, others having been
\* evicted: an undo was refused, or a direction that is not one.
C18_Refused ==
  /\ ui = "info"
  /\ ~redraw_event
  /\ Smallest(gen_counter)
  /\ gen_counter > 0
  /\ Later # {}

\* C19 -- the predicates and the navigation agree.  In every state can_undo
\* is true exactly when load_state_from_history("undo") succeeds, that is
\* when a stored key is smaller than the counter, and can_redo exactly when
\* "redo" succeeds; both are false on the empty history, whatever the
\* counter, and in the state clear leaves (the empty grid recorded alone as
\* generation 0).
C19_PredicatesAgree ==
  /\ [](/\ can_undo(generation_history, gen_counter) <=>
             load_state_from_history(generation_history, heap[T], gen_counter,
                                     redraw_event, "undo").ok
        /\ can_undo(generation_history, gen_counter) <=> Earlier # {}
        /\ can_redo(generation_history, gen_counter) <=>
             load_state_from_history(generation_history, heap[T], gen_counter,
                                     redraw_event, "redo").ok
        /\ can_redo(generation_history, gen_counter) <=> Later # {}
        /\ \A g \in {0, gen_counter, MaxKey} :
             ~can_undo(EmptyHistory, g) /\ ~can_redo(EmptyHistory, g))
  /\ [][(/\ ui \in {"idle", "dlg_clear"} /\ ui' = "idle"
         /\ generation_history' # generation_history
         /\ ~has_living_cells(heap'[T'], n)
         /\ gen_counter' = 0) =>
          /\ ~can_undo(generation_history', gen_counter')
          /\ ~can_redo(generation_history', gen_counter')
        ]_vars

\* The counter is at the oldest generation kept, after evictions: an undo is
\* not possible, a redo is.
C19_AtOldest ==
  /\ ui = "idle"
  /\ Smallest(gen_counter)
  /\ gen_counter > 0
  /\ ~can_undo(generation_history, gen_counter)
  /\ can_redo(generation_history, gen_counter)

\* C20 -- persistence round trip.  The file back_to_menu writes holds, under
\* the decimal text of each generation, the snapshot of that generation, with
\* the counter and the grid, and reading it back gives the same mapping from
\* integer generations to grids, the same counter and, on a grid of the same
\* size, the same cells; and a game opened on a file has as history, counter
\* and grid what reading the file gives.
C20_RoundTrip ==
  [][/\ history_file' # history_file =>
          LET f == history_file'[1]
          IN /\ Cardinality(DOMAIN f.history) = Cardinality(Keys)
             /\ \A k \in Keys :
                  /\ ToString(k) \in DOMAIN f.history
                  /\ f.history[ToString(k)] = generation_history[k]
             /\ loaded_history(f) = generation_history
             /\ f.current_gen = gen_counter
             /\ loaded_grid(f, make_grid(n)) = heap[T]
     /\ (barrier' # barrier /\ history_file # NoFile) =>
          LET f == history_file[1]
          IN /\ Cardinality(DOMAIN generation_history') =
                  Cardinality(DOMAIN f.history)
             /\ \A k \in DOMAIN generation_history' :
                  /\ ToString(k) \in DOMAIN f.history
                  /\ generation_history'[k] = f.history[ToString(k)]
             /\ gen_counter' = f.current_gen
             /\ heap'[T'] = f.grid_state
    ]_vars

\* A game that went past the maximum has been left and its history written:
\* the file holds MAX entries, keys of two and of three digits among them,
\* and the counter.
C20_Persisted ==
  /\ ui = "menu"
  /\ barrier = 1
  /\ history_file # NoFile
  /\ history_file[1].current_gen = MAX_HISTORY_GENERATIONS + 1
  /\ Cardinality(DOMAIN history_file[1].history) = MAX_HISTORY_GENERATIONS
  /\ ToString(MAX_HISTORY_GENERATIONS + 1) \in DOMAIN history_file[1].history
  /\ ToString(MAX_HISTORY_GENERATIONS - 1) \in DOMAIN history_file[1].history
  /\ history_file[1].grid_state = heap[T]

\* The cells of the border of a grid of side size.
Border(g, size) ==
  {c \in DOMAIN g : c[1] \in {0, size + 1} \/ c[2] \in {0, size + 1}}

\* C21 -- a size mismatch is tolerated.  A game opened on a file whose grid
\* has another size has in T the saved cells at the indices both grids have
\* and its own cells elsewhere; and no undo or redo onto a loaded snapshot of
\* another size raises.  The copy of load_state_from_history (lines 89-93)
\* has no test of the indices: a snapshot larger than T raises IndexError.
C21_MismatchTolerated ==
  /\ [](ui # "raised")
  /\ [][(barrier' # barrier /\ history_file # NoFile) =>
          LET saved == history_file[1].grid_state
          IN \A c \in DOMAIN heap'[T'] :
               heap'[T'][c] = IF c \in DOMAIN saved THEN saved[c] ELSE 0
        ]_vars

\* C22 -- the border.  In every state every cell of row or column 0 or n + 1
\* of the current and of the next buffer is 0.  load_history_from_file clips
\* the saved grid to the indices of T, border included (line 212), so the
\* interior cells of a larger saved grid are written on the border of T.
C22_BorderDead ==
  \A b \in {0, 1} : \A c \in Border(heap[b], n) : heap[b][c] = 0

\* C27 -- the empty-grid guard.  running and step_event are never set at a
\* moment when the current grid has no living interior cell: a start or a
\* step on an empty grid changes nothing, and a game that opens does not
\* resume a simulation on an empty grid.  ModernApp.__init__ sets running
\* from the saved configuration without looking at the grid (lines 164-165).
C27_StartsOnlyWithLife ==
  [][((~running /\ running') \/ (~step_event /\ step_event')) =>
       \E c \in Interior(n) : heap'[T'][c] = 1
    ]_vars

Row == {<<2, 1>>, <<2, 2>>, <<2, 3>>}
Column == {<<1, 2>>, <<2, 2>>, <<3, 2>>}

\* C24 -- the blinker over the two buffers.  When the round had no write from
\* outside the pool, the swap makes the column current when the row was and
\* the row when the column was, in the first round (Tnext as make_grid left
\* it) and in the second (Tnext holds the grid of two generations before);
\* and the grid made current is the successor of the grid that was current,
\* whatever Tnext held when the round began.
C24_BlinkerOscillates ==
  [][\A w \in Workers :
       (Moves(w, "swap", "incr") /\ ~dirty /\ ~survivors) =>
         /\ Alive(heap[T]) = Row => Alive(heap'[T']) = Column
         /\ Alive(heap[T]) = Column => Alive(heap'[T']) = Row
         /\ heap'[T'] = Evolve(heap[T], n)]_vars

\* The second round of the blinker has been swapped in: the row is current
\* again, the column is in the buffer it was computed from, and the counter
\* still shows generation 1.
C24_RowAgain ==
  /\ ~dirty
  /\ gen_counter = 1
  /\ \E w \in Workers : pc[w] = "incr"
  /\ Alive(heap[T]) = Row
  /\ Alive(heap[Tnext]) = Column

\* C26 -- the scan for life.  In a game, has_living_cells is false exactly
\* when every cell of rows and columns 1 .. n of the current grid is 0,
\* whatever the border holds; and the start it guards leaves the two buffers
\* as they were.
C26_LivingCells ==
  /\ [](ui # "menu" =>
          (~has_living_cells(heap[T], n) <=>
             \A i \in 1..n : \A j \in 1..n : heap[T][<<i, j>>] = 0))
  /\ [][(ui = "idle" /\ ui' = "idle" /\ ~running /\ running') =>
          heap' = heap]_vars

\* The grid of an open game has been cleared: no cell of its interior lives,
\* while its border holds the living cells a larger saved grid left there.
C26_DeadInterior ==
  /\ ui = "idle"
  /\ ~has_living_cells(heap[T], n)
  /\ \E c \in Border(heap[T], n) : heap[T][c] = 1

\* C30 -- the pause is bounded.  While running stays clear after toggle_start
\* cleared it, the counter is incremented at most once, and once it has been
\* no worker computes a cell or arrives at the barrier.  A worker parked at
\* the run gate leaves it when stop_workers sets stop_event, and computes
\* when the flag is cleared before its test of line 153 (the fault of C3).
C30_PauseBounded ==
  /\ [](since_pause <= 1)
  /\ [][since_pause = 1 => round' = round]_vars

\* The grid recorded under the current generation is the current grid.
Recorded ==
  /\ gen_counter \in DOMAIN generation_history
  /\ generation_history[gen_counter] = heap[T]

Drained == \A w \in Workers : pc[w] \in {"unborn", "loop", "gate"} \cup DonePcs

\* C28 -- a reset holds.  When clear, randomize or the current grid taken as
\* the base has run, the counter is 0 and the history is the one snapshot of
\* the current grid under key 0; and as long as the main thread does nothing
\* else to the game this is so again once the round that was under way has
\* ended, no fault injected.  The action of that round swaps, increments and
\* records after the reset.
C28_ResetHolds ==
  /\ [][(~fresh /\ fresh') =>
          /\ gen_counter' = 0
          /\ DOMAIN generation_history' = {0}
          /\ generation_history'[0] = heap'[T']]_vars
  /\ []((fresh /\ Drained /\ faults = 0) =>
          /\ gen_counter = 0
          /\ DOMAIN generation_history = {0}
          /\ generation_history[0] = heap[T])

\* C29 -- pools do not mix.  Once start_workers has created a later pool, no
\* thread of an earlier pool computes a cell or arrives at a barrier, and a
\* thread inside wait() or the completion action of a barrier belongs to the
\* pool the barrier was made for.  stop_workers does not join: a thread that
\* misses the 0.1 s during which stop_event is set goes on, and the global
\* barrier it calls next is the one of the new pool.
C29_PoolsDisjoint ==
  /\ [](\A w \in Workers :
          pc[w] \in ActionPcs \cup {"waiting", "enter"} => at[w] = pool(w))
  /\ [][\A w \in Workers :
          (pool(w) < barrier /\ barrier' = barrier) =>
            round'[w] = round[w] /\ at'[w] = at[w]]_vars

\* Worker w cannot take a step: it is parked at the run gate with running and
\* stop_event clear, or inside wait() of a barrier that is filling.
Blocked(w) ==
  \/ pc[w] = "gate" /\ ~running /\ ~stop_event
  \/ pc[w] = "waiting" /\ bar[at[w]].state = Filling

\* C31 -- the pause is quiescent.  When running is clear, no fault was
\* injected and every thread of the pool is blocked, the threads are all at
\* the run gate or all inside the barrier: never some that have computed
\* their cell and wait, and others that have not.  toggle_start clears
\* running whatever the round has done, and the threads that reach the gate
\* afterwards stop there while the others wait in the barrier.
C31_PauseQuiescent ==
  (/\ ~running
   /\ faults = 0
   /\ \A w \in Workers : pc[w] # "unborn" => Blocked(w)) =>
    ~(/\ \E w \in Workers : pc[w] = "waiting"
      /\ \E w \in Workers : pc[w] = "gate")

\* C32 -- no lost external update.  From the moment clear or randomize has
\* installed a grid and the counter 0, and as long as the main thread does
\* nothing else to the game, no step of a worker changes which buffer is
\* current, a cell of the current grid or the counter.  The round under way
\* at the call is not stopped by running.clear(): its action swaps the
\* buffers and increments the counter afterwards (the fault of C28).
C32_UpdateKept ==
  [][(fresh /\ fresh' /\ pc' # pc) =>
       /\ T' = T
       /\ heap'[T'] = heap[T]
       /\ gen_counter' = gen_counter]_vars

\* C33 -- the history is one timeline.  In every state, when the history
\* holds the keys g and g + 1, the snapshot of g + 1 is the grid one
\* generation of Conway's rule makes of the snapshot of g.  A handler that
\* writes the grid or the counter while the completion action is between its
\* swap and its record makes the action record, under the next key, a grid
\* that is not the successor of the one before.
C33_OneTimeline ==
  \A g \in DOMAIN generation_history :
    (g + 1) \in DOMAIN generation_history =>
      generation_history[g + 1] = Evolve(generation_history[g], n)

\* C34 -- progress.  With the threads scheduled fairly, running set and
\* staying set, no stop requested and no fault, every round completes: the
\* counter reaches the number of rounds followed, MaxRounds, and a thread
\* inside wait() leaves it.
C34_Progress ==
  /\ running ~> (gen_counter = MaxRounds)
  /\ \A w \in Workers : (pc[w] = "waiting") ~> (pc[w] # "waiting")

\* The last round followed has completed with running set throughout, and
\* every thread has left the barrier.
C34_AllRoundsDone ==
  /\ running
  /\ gen_counter = MaxRounds
  /\ \A w \in Workers : pc[w] \notin {"waiting", "enter"} \cup ActionPcs
  /\ \E w \in Workers : round[w] = MaxRounds

\* C35 -- start means a continuous run.  A step of a worker clears running
\* only while a request of one_step is being followed: when the last command
\* was toggle_start, running stays set until the main thread clears it.
\* toggle_start does not clear step_event, so the flag of a step that was
\* paused before its round completed is still set when the simulation is
\* started, and the first completion action clears running.
C35_StartRunsOn ==
  [][(pc' # pc /\ running /\ ~running') => since_step >= 0]_vars

\* C36 -- no lost redraw request.  When ui_loop polls redraw_event (the main
\* thread is idle) and no completion action is between its exchange and its
\* request, a grid that differs from the one the last repaint read has its
\* request pending.  ui_loop clears the event after the repaint, so a request
\* raised by a completion during the repaint is erased with the one served.
InAction(w) == pc[w] \in {"incr", "save", "redraw"}

C36_RequestKept ==
  (/\ ui = "idle"
   /\ painted # EmptyGrid
   /\ painted # heap[T]
   /\ \A w \in Workers : ~InAction(w)) => redraw_event

\* C37 -- the round trip of undo and redo.  In a paused state with no round
\* under way, the main thread idle, where the history holds at the current
\* counter a snapshot equal to the live grid and some earlier key, an undo
\* that succeeds followed by a redo succeeds, gives back the counter and the
\* live grid cell for cell; and a navigation leaves the history as it was.
Settled ==
  /\ ui = "idle"
  /\ ~running
  /\ ~step_event
  /\ gen_counter \in DOMAIN generation_history
  /\ generation_history[gen_counter] = heap[T]
  /\ \E k \in DOMAIN generation_history : k < gen_counter

Undone ==
  load_state_from_history(generation_history, heap[T], gen_counter,
                          redraw_event, "undo")

Redone ==
  load_state_from_history(generation_history, Undone.T, Undone.gen_counter,
                          Undone.redraw_event, "redo")

C37_RoundTrip ==
  /\ []((Settled /\ Undone.ok) =>
         /\ Redone.ok
         /\ Redone.gen_counter = gen_counter
         /\ Redone.T = heap[T])
  /\ [][(\E direction \in {"undo", "redo"} : Navigate(direction)) =>
         generation_history' = generation_history]_vars

\* A settled state with later generations in the history, where undo succeeds
\* and changes the grid.
C37_WentBack ==
  /\ Settled
  /\ \E k \in DOMAIN generation_history : k > gen_counter
  /\ Undone.ok
  /\ Undone.T # heap[T]
  /\ Undone.gen_counter < gen_counter

\* C38 -- the load is all or nothing.  A call of load_history_from_file in
\* which an exception is raised and swallowed leaves the history, the counter
\* and the grids as they were.  The history and the counter are assigned
\* before the grid is read, so a malformed grid leaves them replaced.
C38_AllOrNothing ==
  [][(/\ ui = "opening"
      /\ ui' = "loaded"
      /\ load_history_from_file(history_file[1], generation_history,
                                gen_counter, heap[T]).raised) =>
       /\ generation_history' = generation_history
       /\ gen_counter' = gen_counter
       /\ heap' = heap]_vars
====
